---------------------------- MODULE Spec2Model ----------------------------
(***************************************************************************)
(* Credential lifecycle and write gate of toconline-mcp.                   *)
(*                                                                         *)
(*   auth.py     TokenStore: is_valid, bearer, refresh                     *)
(*   client.py   TOCOnlineClient._request: path check, proactive renewal,  *)
(*               send, single reactive renewal and resend on 401           *)
(*   keychain.py store_refresh_token / load_refresh_token                  *)
(*   app.py      lifespan (seeding of the TokenStore), write_tool (gate)   *)
(*                                                                         *)
(* The process is a single asyncio event loop: a coroutine runs without    *)
(* interruption between two awaits on the network, so one action is the    *)
(* code between two network awaits.  The token endpoint and the API are    *)
(* the environment: what they answer is chosen nondeterministically.       *)
(***************************************************************************)
EXTENDS Integers, Sequences, FiniteSets, TLC

VARIABLES
    settings,          \* Settings (settings.py), fixed for the process lifetime
    keyring_backend,   \* what the keyring library does when called
    keyring_password,  \* the one entry (toconline-mcp, refresh_token) of the vault
    phase,             \* "boot" before lifespan() has run, "running" after
    access_token,      \* TokenStore._access_token
    refresh_token,     \* TokenStore._refresh_token
    expires_at,        \* TokenStore._expires_at when finite
    expires_inf,       \* TokenStore._expires_at == float("inf")
    now,               \* time.time()
    srv_issued,        \* token endpoint: number of token payloads issued
    req,               \* the _request coroutines in flight, one per slot
    calls_started,     \* number of _request calls started since process start
    write_call_count,  \* app._write_call_count
    gate_log,          \* one record per call of a write_tool wrapper
    seeded,            \* history: what lifespan() loaded into the TokenStore
    renewal_log,       \* history: first and latest token response applied
    valid_in,          \* input of an is_valid evaluation
    valid_out,         \* its result
    key_call,          \* one call of a keychain.py function and how it ended
    path_check,        \* one evaluation of the path check of _request
    login,             \* the run of the command "toconline-mcp auth"
    pkce,              \* one call of _generate_pkce_pair
    srv_log,           \* token endpoint: the renewal requests it processed
    auth_url           \* one call of make_auth_url: the endpoint it derives

vars == <<settings, keyring_backend, keyring_password, phase, access_token,
          refresh_token, expires_at, expires_inf, now, srv_issued, req,
          calls_started, write_call_count, gate_log, seeded, renewal_log,
          valid_in,
          valid_out, key_call, path_check, login, pkce, srv_log, auth_url>>

tokenVars == <<access_token, refresh_token, expires_at, expires_inf>>
gateVars == <<write_call_count, gate_log>>
validVars == <<valid_in, valid_out>>
sideVars == <<key_call, path_check, login, pkce, srv_log, auth_url>>

---------------------------------------------------------------------------
(* Bounds of the model.                                                    *)

MaxTime == 1
MaxIssued == 2
MaxCalls == 2
MaxGateCalls == 4

(* Program constants.                                                      *)

Buffer == 60
DefaultExpiresIn == 7890000

\* Python's None, and a key that a JSON object does not have.
None == "<None>"
NoKey == "<absent>"

\* The slots a _request coroutine can run in; the calls of Spec follow one
\* another in the first one.
Requests == {"q1", "q2"}
Sequential == {"q1"}

(* Values of the side variables while the part of the program they belong  *)
(* to has not run.                                                         *)
NoKeychainCall ==
    [fn |-> "", arg |-> "", before |-> "", raised |-> "", returned |-> "",
     n |-> 0]
NoPathCheck == [path |-> <<>>, evaluated |-> FALSE, raised |-> ""]
NoUserInput == [kind |-> "none", pad |-> "", scheme |-> "", query |-> <<>>,
                text |-> ""]
NoTokens == [status |-> 0, access_token |-> NoKey, refresh_token |-> NoKey]
NoLogin ==
    [pc |-> "not_started", visited |-> <<>>, expected_state |-> "",
     code_verifier |-> "",
     user_input |-> NoUserInput, code |-> "", posts |-> <<>>,
     tokens |-> NoTokens, stores |-> <<>>, vault_before |-> "",
     exited |-> FALSE, status |-> 0, stderr |-> "", stdout |-> ""]
NoPkce == [pc |-> "not_started", verifier_bytes |-> <<>>,
           code_verifier |-> "", code_challenge |-> ""]

NoAuthUrl ==
    [oauth_token_url |-> "", auth_endpoint |-> "", evaluated |-> FALSE]

SideIdle ==
    /\ key_call = NoKeychainCall
    /\ path_check = NoPathCheck
    /\ login = NoLogin
    /\ pkce = NoPkce
    /\ srv_log = <<>>
    /\ auth_url = NoAuthUrl


---------------------------------------------------------------------------
(* Paths.  A path is the sequence of its characters, so that the regular   *)
(* expression of client.py is computed character by character.             *)

\* Sample of the characters Python's \w matches.
WordChars == {"a", "p", "i", "c", "e", "t", "1", "_"}

\* [\w/.-]
InClass(ch) == ch \in WordChars \/ ch \in {"/", ".", "-"}

\* re.compile(r"^/api[\w/.-]*$").match(path): the prefix, then characters of
\* the class up to the end of the string; Python's $ also matches just
\* before a newline that ends the string.
SafePathRe(path) ==
    /\ Len(path) >= 4
    /\ SubSeq(path, 1, 4) = <<"/", "a", "p", "i">>
    /\ \A i \in 5..Len(path) :
          \/ InClass(path[i])
          \/ i = Len(path) /\ path[i] = "\n"

\* ".." in path
HasDotDot(path) ==
    \E i \in 1..(Len(path) - 1) : path[i] = "." /\ path[i + 1] = "."

\* The guard of _request: the call goes on only when this holds.
PathAccepted(path) == SafePathRe(path) /\ ~HasDotDot(path)

PathCustomers == <<"/", "a", "p", "i", "/", "c">>
PathTraversal == <<"/", "a", "p", "i", "/", ".", ".", "/", "c">>
PathNoPrefix == <<"/", "e", "t", "c">>
PathBadChar == <<"/", "a", "p", "i", "/", "c", "?", "1">>

\* The calls the tools make: get(path, params=...), post(path, json=...).
Calls ==
    { [method |-> "GET", path |-> PathCustomers, kw |-> "params"],
      [method |-> "POST", path |-> PathCustomers, kw |-> "json"],
      [method |-> "GET", path |-> PathTraversal, kw |-> "params"],
      [method |-> "DELETE", path |-> PathNoPrefix, kw |-> "json"],
      [method |-> "GET", path |-> PathBadChar, kw |-> "params"] }

NoCall == [method |-> "", path |-> <<>>, kw |-> ""]

---------------------------------------------------------------------------
(* TokenStore (auth.py).                                                   *)

\* Mutant: the infinite expiry of a static bearer is not honoured.
IsValidAtFiniteOnly(tok, inf, exp, t) == tok # "" /\ t < exp - Buffer

\* Mutant: the boundary of the buffer counts as valid.
IsValidAtInclusive(tok, inf, exp, t) == tok # "" /\ (inf \/ t <= exp - Buffer)

\* TokenStore.is_valid, as a function of the fields and the clock:
\* bool(self._access_token) and time.time() < self._expires_at - 60
IsValidAt(tok, inf, exp, t) == tok # "" /\ (inf \/ t < exp - Buffer)

IsValid == IsValidAt(access_token, expires_inf, expires_at, now)

\* TokenStore.bearer: f"Bearer {self._access_token}"
Bearer(tok) == "Bearer " \o tok

\* Mutant: the configured refresh string is preferred to the held one.
RefreshTokenPrefersSettings ==
    IF settings.refresh_token # "" THEN settings.refresh_token ELSE refresh_token

\* refresh(): refresh_token = self._refresh_token or settings.refresh_token
RefreshTokenToSend ==
    IF refresh_token # "" THEN refresh_token ELSE settings.refresh_token

\* Mutant: the client secret is not looked at.
CredentialsMissingIdOnly == settings.client_id = ""

\* refresh(): the guard on the client credentials
CredentialsMissing == settings.client_id = "" \/ settings.client_secret = ""

\* The form of the refresh grant.
RefreshForm(rt) ==
    [grant_type |-> "refresh_token", refresh_token |-> rt,
     client_id |-> settings.client_id, client_secret |-> settings.client_secret,
     scope |-> "commercial"]

NoForm ==
    [grant_type |-> "", refresh_token |-> "", client_id |-> "",
     client_secret |-> "", scope |-> ""]

\* Mutant: another default lifetime.
ExpiresInOneHour(p) == IF p.expires_kind = "absent" THEN 3600 ELSE p.expires_in

\* int(payload.get("expires_in", 7890000)) for a payload it can convert
ExpiresIn(p) == IF p.expires_kind = "absent" THEN DefaultExpiresIn ELSE p.expires_in

\* Mutant: a refresh string in the response is never taken over.
RotatedNever(p) == FALSE

\* if new_refresh := payload.get("refresh_token")
Rotated(p) == p.refresh_token # NoKey /\ p.refresh_token # ""

---------------------------------------------------------------------------
(* keychain.py                                                             *)

\* Mutant: the write to the vault is left out.
StoreRefreshTokenSkipped(token) == keyring_password

\* store_refresh_token(token): the vault after the call
StoreRefreshToken(token) ==
    IF keyring_backend = "ok" THEN token ELSE keyring_password

\* store_refresh_token(token): its return value
StoreSucceeds == keyring_backend = "ok"

\* Mutant: the vault is never read.
LoadRefreshTokenNever == None

\* load_refresh_token(): token if token else None; None on any failure
LoadRefreshToken ==
    IF keyring_backend = "ok" /\ keyring_password # ""
    THEN keyring_password
    ELSE None

---------------------------------------------------------------------------
(* The environment: the token endpoint and the API.                        *)

\* The lifetime the token endpoint reports when it reports one: one second
\* more than the 60 s buffer, so the token is valid until the clock moves.
Lifetimes == {61}

NoResp ==
    [status |-> 0, access_token |-> NoKey, refresh_token |-> NoKey,
     expires_kind |-> "absent", expires_in |-> 0]

\* What the token endpoint may answer to a refresh grant when it has issued
\* n payloads so far: a non-2xx status, a 200 without access_token, or a
\* 200 with a fresh access token, with or without a rotated refresh string,
\* with expires_in an integer, missing, or not convertible to one.
TokenResponses(n) ==
    { [NoResp EXCEPT !.status = 400] }
    \cup
    ( IF n >= MaxIssued THEN {} ELSE
      { [NoResp EXCEPT !.status = 200] }
      \cup
      { [status |-> 200,
         access_token |-> "a" \o ToString(n + 1),
         refresh_token |-> rt,
         expires_kind |-> ek[1],
         expires_in |-> ek[2]] :
           rt \in {NoKey, "r" \o ToString(n + 1)},
           ek \in ({<<"absent", 0>>, <<"bad", 0>>}
                     \cup {<<"int", l>> : l \in Lifetimes}) } )

Issues(resp) == resp.status = 200 /\ resp.access_token # NoKey

\* The answers of the API the calls of Spec receive.
CoreResponses ==
    { [status |-> 200, body |-> "{data:[]}"],
      [status |-> 401, body |-> "{errors:[{code:E1,detail:bad}]}"],
      [status |-> 422,
       body |-> "{errors:[{code:E1,detail:bad},{detail:worse}]}"],
      [status |-> 500, body |-> "{errors:[{code:E3}]}"] }

\* Bodies of every shape, and the statuses that come with them.
Bodies ==
    {"{data:[]}", "{errors:[{code:E1,detail:bad}]}",
     "{errors:[{code:E1,detail:bad},{detail:worse}]}", "{errors:[{code:E3}]}",
     "{errors:[{}]}", "{errors:[]}", "{message:no}", "{}", "{errors:oops}",
     "{errors:[oops]}", "{errors:null}", "{errors:5}", "[]", "null",
     "<html>", ""}

ErrorStatuses == {400, 403, 404, 422, 500, 503}

ApiResponses ==
    CoreResponses
    \cup {[status |-> s, body |-> "{errors:[{code:E1,detail:bad}]}"] :
             s \in ErrorStatuses}
    \cup {[status |-> s, body |-> b] : s \in {401, 404}, b \in Bodies}
    \cup {[status |-> 204, body |-> ""]}

\* httpx.Response.is_success
IsSuccess(status) == status >= 200 /\ status <= 299

---------------------------------------------------------------------------
(* Response bodies and the typed error (client.py).  A body is named by    *)
(* its text, written without the quotes of JSON.                           *)

Entry(code, detail) == [code |-> code, detail |-> detail]

\* What body.get("errors", ...) can be: a list of objects, or something
\* else, named by its type.
ErrList(items) == [type |-> "list", items |-> items]
ErrOther(type) == [type |-> type, items |-> <<>>]

JsonObject(empty, errors) ==
    [kind |-> "object", empty |-> empty, errors |-> errors]
JsonOther(kind) ==
    [kind |-> kind, empty |-> FALSE, errors |-> ErrOther("missing")]

\* response.json(): "invalid" stands for the exception it raises.
Json(text) ==
    CASE text = "{data:[]}" -> JsonObject(FALSE, ErrOther("missing"))
      [] text = "{errors:[{code:E1,detail:bad}]}" ->
            JsonObject(FALSE, ErrList(<<Entry("E1", "bad")>>))
      [] text = "{errors:[{code:E1,detail:bad},{detail:worse}]}" ->
            JsonObject(FALSE, ErrList(<<Entry("E1", "bad"),
                                        Entry(NoKey, "worse")>>))
      [] text = "{errors:[{code:E3}]}" ->
            JsonObject(FALSE, ErrList(<<Entry("E3", NoKey)>>))
      [] text = "{errors:[{}]}" ->
            JsonObject(FALSE, ErrList(<<Entry(NoKey, NoKey)>>))
      [] text = "{errors:[]}" -> JsonObject(FALSE, ErrList(<<>>))
      [] text = "{message:no}" -> JsonObject(FALSE, ErrOther("missing"))
      [] text = "{}" -> JsonObject(TRUE, ErrOther("missing"))
      [] text = "{errors:oops}" -> JsonObject(FALSE, ErrOther("string"))
      [] text = "{errors:[oops]}" -> JsonObject(FALSE, ErrOther("strings"))
      [] text = "{errors:null}" -> JsonObject(FALSE, ErrOther("null"))
      [] text = "{errors:5}" -> JsonObject(FALSE, ErrOther("number"))
      [] text = "[]" -> JsonOther("array")
      [] text = "null" -> JsonOther("null")
      [] OTHER -> JsonOther("invalid")

\* bool(x) of a string that may be missing
Truthy(s) == s # NoKey /\ s # ""

\* not errors
Falsy(errors) ==
    \/ errors.type = "null"
    \/ errors.type = "list" /\ errors.items = <<>>

\* [{"code": str(response.status_code), "detail": response.text}]
Synthesized(status, text) == ErrList(<<Entry(ToString(status), text)>>)

\* _raise_for_api_errors: the value it hands to TOCOnlineError.  json()
\* raising, and body.get raising on JSON that is not an object, are both
\* caught.
ParsedErrors(status, text) ==
    LET body == Json(text) IN
    IF body.kind # "object"
    THEN Synthesized(status, text)
    ELSE LET errors == IF body.errors.type = "missing"
                       THEN ErrList(<<>>) ELSE body.errors
         IN  IF Falsy(errors) /\ body.empty
             THEN Synthesized(status, text)
             ELSE errors

\* response_text_fallback (the dash of the 401 text is written in ASCII)
response_text_fallback(status_code) ==
    CASE status_code = 400 -> "Bad request."
      [] status_code = 401 -> "Unauthorized - token may be expired."
      [] status_code = 403 -> "Forbidden."
      [] status_code = 404 -> "Not found."
      [] status_code = 422 -> "Unprocessable entity."
      [] status_code = 500 -> "Internal server error."
      [] OTHER -> "HTTP " \o ToString(status_code) \o " error."

\* f"[{e.get('code', '?')}] {e.get('detail', '')}".strip()
FormatEntry(e) ==
    LET code == IF e.code = NoKey THEN "?" ELSE e.code
        detail == IF e.detail = NoKey THEN "" ELSE e.detail
    IN  IF detail = "" THEN "[" \o code \o "]"
        ELSE "[" \o code \o "] " \o detail

RECURSIVE JoinEntries(_)
\* "; ".join(...)
JoinEntries(items) ==
    IF items = <<>> THEN ""
    ELSE IF Len(items) = 1 THEN FormatEntry(items[1])
    ELSE FormatEntry(items[1]) \o "; " \o JoinEntries(Tail(items))

\* TOCOnlineError.__init__: details
Details(items, status_code) ==
    LET kept == SelectSeq(items,
                          LAMBDA e : Truthy(e.detail) \/ Truthy(e.code))
    IN  IF JoinEntries(kept) = "" THEN response_text_fallback(status_code)
        ELSE JoinEntries(kept)

\* Mutant: every status gets the generic prefix.
PrefixGeneric(status_code) == "HTTP " \o ToString(status_code) \o ": "

\* TOCOnlineError.__init__: prefix
Prefix(status_code) ==
    CASE status_code = 403 -> "Permission denied (business rule violation): "
      [] status_code = 404 -> "Resource not found: "
      [] status_code = 422 -> "Validation failed: "
      [] OTHER -> "HTTP " \o ToString(status_code) \o ": "

\* What raise TOCOnlineError(errors, status) raises: the generator of
\* __init__ calls e.get on every element of errors, outside any try.
RaisedBy(errors) ==
    CASE errors.type = "list" -> "TOCOnlineError"
      [] errors.type \in {"string", "strings"} -> "AttributeError"
      [] OTHER -> "TypeError"


---------------------------------------------------------------------------
(* One _request coroutine (client.py).  pc is the await it is suspended    *)
(* at: "renew1" the POST of the proactive renewal, "api1" the first API    *)
(* request, "renew2" the POST of the reactive renewal, "api2" the resend.  *)
(* trace is the history of the call, for the properties.                   *)

NoOutcome ==
    [kind |-> "", status |-> 0, body |-> "", detail |-> "", errors |-> <<>>]

NotSeeded == [kind |-> "none", value |-> ""]
NoRenewal == [seq |-> 0, at |-> 0, resp |-> NoResp]
NoInput == [tok |-> "", inf |-> FALSE, exp |-> 0, t |-> 0, evaluated |-> FALSE]

Idle ==
    [pc |-> "idle", call |-> NoCall, entry_valid |-> FALSE, entry_token |-> "",
     started_at |-> 0, seq |-> 0,
     post |-> NoForm, trace |-> <<>>, outcome |-> NoOutcome]

EvValidate(ok) == [ev |-> "validate", ok |-> ok]
EvPost(form, held) == [ev |-> "post", form |-> form, held |-> held]
EvToken(resp, t) == [ev |-> "token", resp |-> resp, at |-> t]
EvStore(value, ok) == [ev |-> "store", val |-> value, ok |-> ok]
EvSend(call, auth) == [ev |-> "send", call |-> call, auth |-> auth]
EvRecv(resp) == [ev |-> "recv", status |-> resp.status, body |-> resp.body]

\* The places of the events of one kind in the history of a call.
EvIdx(q, kind) == {i \in 1..Len(q.trace) : q.trace[i].ev = kind}
NumEv(q, kind) == Cardinality(EvIdx(q, kind))
Nth(S, n) == CHOOSE i \in S : Cardinality({j \in S : j <= i}) = n

\* The call ends: it returns or raises.
Done(q, kind, status, body, detail) ==
    [q EXCEPT !.pc = "done", !.post = NoForm,
              !.outcome = [kind |-> kind, status |-> status, body |-> body,
                           detail |-> detail, errors |-> <<>>]]

\* Mutant: the header built for the first send is used again for the
\* resend.
SendApiReusesHeader(q, nextpc, tok) ==
    [q EXCEPT !.pc = nextpc, !.post = NoForm,
              !.trace = Append(@,
                  IF nextpc = "api2"
                  THEN [ev |-> "send", call |-> q.call,
                        auth |-> q.trace[CHOOSE i \in 1..Len(q.trace) :
                                            q.trace[i].ev = "send"].auth]
                  ELSE [ev |-> "send", call |-> q.call,
                        auth |-> Bearer(tok)])]

\* self._client.request(method, path, headers=self._auth_header(), **kwargs)
\* with tok the access token the store holds at that moment.
SendApi(q, nextpc, tok) ==
    [q EXCEPT !.pc = nextpc, !.post = NoForm,
              !.trace = Append(@, EvSend(q.call, Bearer(tok)))]

\* TokenStore.refresh up to its await: the two configuration checks, then
\* the POST of the refresh grant.
RefreshBegin(q, nextpc) ==
    IF CredentialsMissing
    THEN Done(q, "RuntimeError", 0, "", "credentials")
    ELSE IF RefreshTokenToSend = ""
    THEN Done(q, "RuntimeError", 0, "", "no_refresh_token")
    ELSE [q EXCEPT !.pc = nextpc,
                   !.post = RefreshForm(RefreshTokenToSend),
                   !.trace = Append(@, EvPost(RefreshForm(RefreshTokenToSend),
                                              refresh_token))]

\* Mutant: the request is sent without looking at is_valid.
EnsureTokenSkipsCheck(q) == SendApi(q, "api1", access_token)

\* Mutant: the token is renewed before every call.
EnsureTokenAlwaysRenews(q) == RefreshBegin(q, "renew1")

\* Mutant: refresh() is not called while another call is renewing.
EnsureTokenSingleFlight(q) ==
    IF IsValid THEN SendApi(q, "api1", access_token)
    ELSE IF \E o \in Requests : req[o].pc \in {"renew1", "renew2"}
    THEN [q EXCEPT !.pc = "waiting"]
    ELSE RefreshBegin(q, "renew1")

\* _ensure_token then the first send.
EnsureTokenAndSend(q) ==
    IF IsValid THEN SendApi(q, "api1", access_token) ELSE RefreshBegin(q, "renew1")

\* Mutant: the path is not checked.
RequestBeginUnchecked(q) ==
    EnsureTokenAndSend([q EXCEPT !.trace = Append(@, EvValidate(TRUE))])

\* _request up to its first await.
RequestBegin(q) ==
    IF ~PathAccepted(q.call.path)
    THEN Done([q EXCEPT !.trace = Append(@, EvValidate(FALSE))],
              "ValueError", 0, "", "unsafe_path")
    ELSE EnsureTokenAndSend([q EXCEPT !.trace = Append(@, EvValidate(TRUE))])

\* A tool calls client.get / post / patch / delete.
Start(r, c) ==
    /\ phase = "running"
    /\ req[r].pc \in {"idle", "done"}
    /\ calls_started < MaxCalls
    /\ calls_started' = calls_started + 1
    /\ req' = [req EXCEPT ![r] =
                  RequestBegin([Idle EXCEPT !.call = c,
                                            !.entry_valid = IsValid,
                                            !.entry_token = access_token,
                                            !.started_at = now,
                                            !.seq = calls_started + 1])]
    /\ UNCHANGED <<settings, keyring_backend, keyring_password, phase,
                   tokenVars, now, srv_issued, gateVars, validVars,
                   sideVars, seeded, renewal_log>>

\* The pc after a renewal that was awaited at pc.
AfterRenew(pc) == IF pc = "renew1" THEN "api1" ELSE "api2"

\* TokenStore.refresh from the answer p of the token endpoint on, then the
\* send that follows it in _request.  raise_for_status and payload["access_token"] raise before
\* any assignment; int() raises after the assignment of _access_token.
\* The history keeps the first and the latest of the responses that reached
\* that assignment.
Logged(log, e) == IF log = <<>> THEN <<e>> ELSE <<log[1], e>>

\* Mutant: a renewal whose write to the vault failed raises.
AfterStoreChecked(q, ok, nextpc, tok) ==
    IF ok THEN SendApi(q, nextpc, tok)
    ELSE Done(q, "RuntimeError", 0, "", "keychain")

\* store_refresh_token(new_refresh) has returned: its result is discarded,
\* refresh() returns and the request is sent.
AfterStore(q, ok, nextpc, tok) == SendApi(q, nextpc, tok)

\* Mutant: an exception of refresh() is swallowed and the request is sent
\* with whatever bearer is held.
RefreshRaisesSwallowed(q, kind, status, detail) ==
    SendApi(q, AfterRenew(q.pc), access_token)

\* refresh() raises after its await: neither refresh() nor _request
\* catches, so the call ends with that exception.
RefreshRaises(q, kind, status, detail) == Done(q, kind, status, "", detail)

RefreshApply(r, p) ==
    LET q == req[r]
        q1 == [q EXCEPT !.trace = Append(@, EvToken(p, now))]
    IN
    /\ q.pc \in {"renew1", "renew2"}
    /\ renewal_log' = IF IsSuccess(p.status) /\ p.access_token # NoKey
                       THEN Logged(renewal_log,
                                   [seq |-> q.seq, at |-> now, resp |-> p])
                       ELSE renewal_log
    /\ IF ~IsSuccess(p.status)
       THEN /\ req' = [req EXCEPT ![r] =
                          RefreshRaises(q1, "HTTPStatusError", p.status, "token")]
            /\ UNCHANGED <<tokenVars, keyring_password>>
       ELSE IF p.access_token = NoKey
       THEN /\ req' = [req EXCEPT ![r] =
                          RefreshRaises(q1, "KeyError", 0, "access_token")]
            /\ UNCHANGED <<tokenVars, keyring_password>>
       ELSE IF p.expires_kind = "bad"
       THEN /\ access_token' = p.access_token
            /\ req' = [req EXCEPT ![r] =
                          RefreshRaises(q1, "ValueError", 0, "expires_in")]
            /\ UNCHANGED <<refresh_token, expires_at, expires_inf,
                           keyring_password>>
       ELSE /\ access_token' = p.access_token
            /\ expires_at' = now + ExpiresIn(p)
            /\ expires_inf' = FALSE
            /\ IF Rotated(p)
               THEN /\ refresh_token' = p.refresh_token
                    /\ keyring_password' = StoreRefreshToken(p.refresh_token)
                    /\ req' = [req EXCEPT ![r] =
                          AfterStore([q1 EXCEPT !.trace =
                                        Append(@, EvStore(p.refresh_token,
                                                          StoreSucceeds))],
                                     StoreSucceeds, AfterRenew(q.pc),
                                     p.access_token)]
               ELSE /\ UNCHANGED <<refresh_token, keyring_password>>
                    /\ req' = [req EXCEPT ![r] =
                          SendApi(q1, AfterRenew(q.pc), p.access_token)]
    /\ UNCHANGED <<settings, keyring_backend, phase, now,
                   calls_started, gateVars, validVars, sideVars, seeded>>

\* The token endpoint answers the POST of r with p, and refresh() resumes
\* at once.
RefreshReturn(r, p) ==
    /\ p \in TokenResponses(srv_issued)
    /\ srv_issued' = IF Issues(p) THEN srv_issued + 1 ELSE srv_issued
    /\ RefreshApply(r, p)

\* Mutant: every 401 is retried, the one that answers the resend too.
ShouldRetryAlways(pc, status) == status = 401

\* Mutant: every error status of the first response is retried.
ShouldRetryAnyError(pc, status) == pc = "api1" /\ status >= 400

\* if response.status_code == 401, reached only for the first response
ShouldRetry(pc, status) == pc = "api1" /\ status = 401

\* _raise_for_api_errors(response) then return response.json(), for a
\* response with this status and this text.  detail is the message of the
\* TOCOnlineError, errors its entries.
Outcome(q, status, text) ==
    IF IsSuccess(status)
    THEN IF Json(text).kind = "invalid"
         THEN Done(q, "JSONDecodeError", status, text, "")
         ELSE Done(q, "return", status, text, "")
    ELSE LET errors == ParsedErrors(status, text) IN
         IF RaisedBy(errors) = "TOCOnlineError"
         THEN [Done(q, "TOCOnlineError", status, text,
                    Prefix(status) \o Details(errors.items, status))
                 EXCEPT !.outcome.errors = errors.items]
         ELSE Done(q, RaisedBy(errors), 0, text, "")

\* Mutant: the outcome is taken from the first response of the call.
FinishFromFirst(q, resp) ==
    LET e == q.trace[Nth(EvIdx(q, "recv"), 1)]
    IN  Outcome(q, e.status, e.body)

\* The response the call ends with.
Finish(q, resp) == Outcome(q, resp.status, resp.body)

\* The API answers the request of r and _request resumes.
ApiReturn(r, resp) ==
    LET q == req[r]
        q1 == [q EXCEPT !.trace = Append(@, EvRecv(resp))]
    IN
    /\ q.pc \in {"api1", "api2"}
    /\ resp \in ApiResponses
    /\ req' = [req EXCEPT ![r] =
                  IF ShouldRetry(q.pc, resp.status)
                  THEN RefreshBegin(q1, "renew2")
                  ELSE Finish(q1, resp)]
    /\ UNCHANGED <<settings, keyring_backend, keyring_password, phase,
                   tokenVars, now, srv_issued, calls_started, gateVars,
                   validVars, sideVars, seeded, renewal_log>>

\* Time passes.
Tick ==
    /\ now < MaxTime
    /\ now' = now + 1
    /\ UNCHANGED <<settings, keyring_backend, keyring_password, phase,
                   tokenVars, srv_issued, req, calls_started, gateVars,
                   validVars, sideVars, seeded, renewal_log>>

---------------------------------------------------------------------------
(* app.py: lifespan seeds the TokenStore from one of three sources.        *)

\* Mutant: the refresh string of the configuration is preferred to the
\* one of the vault.
LifespanSettingsFirst ==
    /\ phase = "boot"
    /\ phase' = "running"
    /\ IF settings.access_token # ""
       THEN /\ access_token' = settings.access_token
            /\ expires_inf' = TRUE
            /\ seeded' = [kind |-> "static", value |-> settings.access_token]
            /\ UNCHANGED <<refresh_token, expires_at>>
       ELSE IF settings.refresh_token # ""
       THEN /\ refresh_token' = settings.refresh_token
            /\ seeded' = [kind |-> "refresh", value |-> settings.refresh_token]
            /\ UNCHANGED <<access_token, expires_at, expires_inf>>
       ELSE IF LoadRefreshToken # None
       THEN /\ refresh_token' = LoadRefreshToken
            /\ seeded' = [kind |-> "refresh", value |-> LoadRefreshToken]
            /\ UNCHANGED <<access_token, expires_at, expires_inf>>
       ELSE UNCHANGED <<tokenVars, seeded>>
    /\ UNCHANGED <<settings, keyring_backend, keyring_password, now,
                   srv_issued, req, calls_started, gateVars, validVars,
                   sideVars,
                   renewal_log>>

Lifespan ==
    /\ phase = "boot"
    /\ phase' = "running"
    /\ IF settings.access_token # ""
       THEN \* Priority 1: load_static
            /\ access_token' = settings.access_token
            /\ expires_inf' = TRUE
            /\ seeded' = [kind |-> "static", value |-> settings.access_token]
            /\ UNCHANGED <<refresh_token, expires_at>>
       ELSE IF LoadRefreshToken # None
       THEN \* Priority 2: load_refresh_token(keychain_token)
            /\ refresh_token' = LoadRefreshToken
            /\ seeded' = [kind |-> "refresh", value |-> LoadRefreshToken]
            /\ UNCHANGED <<access_token, expires_at, expires_inf>>
       ELSE IF settings.refresh_token # ""
       THEN \* Priority 3: load_refresh_token(settings.refresh_token)
            /\ refresh_token' = settings.refresh_token
            /\ seeded' = [kind |-> "refresh", value |-> settings.refresh_token]
            /\ UNCHANGED <<access_token, expires_at, expires_inf>>
       ELSE UNCHANGED <<tokenVars, seeded>>
    /\ UNCHANGED <<settings, keyring_backend, keyring_password, now,
                   srv_issued, req, calls_started, gateVars, validVars,
                   sideVars,
                   renewal_log>>

SettingsSet ==
    [access_token : {"", "static"}, client_id : {"", "cid"},
     client_secret : {"", "sec"}, refresh_token : {"", "envr"},
     read_only : {FALSE}, max_write_calls_per_session : {0}]

Backends == {"ok", "NoKeyringError"}

\* TokenStore() as the dataclass constructs it, settings as the environment
\* gives them, the vault as the last login or renewal left it.
Init ==
    /\ settings \in SettingsSet
    /\ keyring_backend \in Backends
    /\ keyring_password \in {"", "kr"}
    /\ keyring_backend # "ok" => keyring_password = ""
    /\ phase = "boot"
    /\ access_token = ""
    /\ refresh_token = ""
    /\ expires_at = 0
    /\ expires_inf = FALSE
    /\ now = 0
    /\ srv_issued = 0
    /\ req = [r \in Requests |-> Idle]
    /\ calls_started = 0
    /\ write_call_count = 0
    /\ gate_log = <<>>
    /\ seeded = NotSeeded
    /\ renewal_log = <<>>
    /\ valid_in = NoInput
    /\ valid_out = FALSE
    /\ SideIdle

Next ==
    \/ Lifespan
    \/ \E r \in Sequential, c \in Calls : Start(r, c)
    \/ \E r \in Sequential : \E resp \in TokenResponses(srv_issued) :
          RefreshReturn(r, resp)
    \/ \E r \in Sequential, resp \in CoreResponses : ApiReturn(r, resp)
    \/ Tick

Spec == Init /\ [][Next]_vars


---------------------------------------------------------------------------
(* app.py: write_tool.  The wrapper runs from its entry to "await func"    *)
(* without an await, so the gate of one call is one step; the wrapped      *)
(* operation then runs on its own and returns or raises later.             *)

READ_ONLY_ERROR ==
    "This server is running in read-only mode (TOCONLINE_READ_ONLY=true). Write operations (create, update, delete, finalize, send) are disabled."

\* _RATE_LIMIT_ERROR.format(limit=limit)
RATE_LIMIT_ERROR(limit) ==
    "Write operation rate limit exceeded (max " \o ToString(limit)
      \o " per session). This safety limit prevents runaway automation. Adjust TOCONLINE_MAX_WRITE_CALLS_PER_SESSION to change the limit."

WriteTools == {"create_customer", "delete_customer"}
WrappedResults == {"created", "deleted"}

\* Mutant: the counter is incremented before read-only mode is looked at.
CountedIgnoringReadOnly == settings.max_write_calls_per_session > 0

\* if limit > 0: the counter is incremented, whatever the comparison gives
Counted == ~settings.read_only /\ settings.max_write_calls_per_session > 0

\* Mutant: a call that is going to be rejected is not counted.
CountAfterAdmittedOnly ==
    IF Counted /\ write_call_count < settings.max_write_calls_per_session
    THEN write_call_count + 1 ELSE write_call_count

\* _write_call_count after the wrapper's test of the limit
CountAfter == IF Counted THEN write_call_count + 1 ELSE write_call_count

\* Mutant: the comparison with the ceiling is off by one.
VerdictOffByOne ==
    IF settings.read_only THEN "read_only"
    ELSE IF settings.max_write_calls_per_session > 0
            /\ CountAfter >= settings.max_write_calls_per_session
    THEN "rate_limited"
    ELSE "invoke"

\* Mutant: a ceiling of 0 is compared like any other.
VerdictNoZeroCase ==
    IF settings.read_only THEN "read_only"
    ELSE IF write_call_count + 1 > settings.max_write_calls_per_session
    THEN "rate_limited"
    ELSE "invoke"

\* Mutant: the comparison uses the counter as it was before the increment.
VerdictBeforeIncrement ==
    IF settings.read_only THEN "read_only"
    ELSE IF settings.max_write_calls_per_session > 0
            /\ write_call_count > settings.max_write_calls_per_session
    THEN "rate_limited"
    ELSE "invoke"

\* What the wrapper does with the call.
Verdict ==
    IF settings.read_only THEN "read_only"
    ELSE IF settings.max_write_calls_per_session > 0
            /\ CountAfter > settings.max_write_calls_per_session
    THEN "rate_limited"
    ELSE "invoke"

\* The dict the wrapper returns when it rejects.
Rejection ==
    IF settings.read_only
    THEN [error |-> READ_ONLY_ERROR, data |-> NoKey]
    ELSE [error |-> RATE_LIMIT_ERROR(settings.max_write_calls_per_session),
          data |-> NoKey]

NoResult == [error |-> NoKey, data |-> NoKey]

\* The arguments the caller passes to each tool.
ArgsOf(tool) ==
    IF tool = "create_customer" THEN <<"ctx", "name=Ana">> ELSE <<"ctx", "id=7">>

\* Mutant: the wrapped operation is called without the arguments.
ForwardedNone(args) == <<>>

\* func(*args, **kwargs): what the wrapped operation receives
Forwarded(args) == args

\* A write-gated tool is called.  called lists the argument tuples the
\* wrapped operation was invoked with.
GateCall(tool) ==
    /\ Len(gate_log) < MaxGateCalls
    /\ write_call_count' = CountAfter
    /\ gate_log' = Append(gate_log,
          IF Verdict = "invoke"
          THEN [tool |-> tool, verdict |-> Verdict, count |-> CountAfter,
                args |-> ArgsOf(tool), called |-> <<Forwarded(ArgsOf(tool))>>,
                func_result |-> NoKey,
                state |-> "running", result |-> NoResult]
          ELSE [tool |-> tool, verdict |-> Verdict, count |-> CountAfter,
                args |-> ArgsOf(tool), called |-> <<>>,
                func_result |-> NoKey,
                state |-> "returned", result |-> Rejection])
    /\ UNCHANGED <<settings, keyring_backend, keyring_password, phase,
                   tokenVars, now, srv_issued, req, calls_started,
                   validVars, sideVars, seeded, renewal_log>>

\* return await func(*args, **kwargs): the wrapped operation returns v
WrappedReturn(i, v) ==
    /\ i \in 1..Len(gate_log)
    /\ gate_log[i].state = "running"
    /\ gate_log' = [gate_log EXCEPT ![i].state = "returned",
                                    ![i].func_result = v,
                                    ![i].result = [error |-> NoKey, data |-> v]]
    /\ UNCHANGED <<settings, keyring_backend, keyring_password, phase,
                   tokenVars, now, srv_issued, req, calls_started,
                   write_call_count, validVars, sideVars, seeded, renewal_log>>

\* the wrapped operation raises, and so does the wrapper
WrappedRaise(i) ==
    /\ i \in 1..Len(gate_log)
    /\ gate_log[i].state = "running"
    /\ gate_log' = [gate_log EXCEPT ![i].state = "raised"]
    /\ UNCHANGED <<settings, keyring_backend, keyring_password, phase,
                   tokenVars, now, srv_issued, req, calls_started,
                   write_call_count, validVars, sideVars, seeded, renewal_log>>

\* max_write_calls_per_session is an int without a validator.
Ceilings == {-1, 0, 1, 2}

GateInit ==
    /\ settings \in [access_token : {"static"}, client_id : {"cid"},
                     client_secret : {"sec"}, refresh_token : {""},
                     read_only : BOOLEAN,
                     max_write_calls_per_session : Ceilings]
    /\ keyring_backend = "ok"
    /\ keyring_password = ""
    /\ phase = "running"
    /\ access_token = "static"
    /\ refresh_token = ""
    /\ expires_at = 0
    /\ expires_inf = TRUE
    /\ now = 0
    /\ srv_issued = 0
    /\ req = [r \in Requests |-> Idle]
    /\ calls_started = 0
    /\ write_call_count = 0
    /\ gate_log = <<>>
    /\ seeded = [kind |-> "static", value |-> "static"]
    /\ renewal_log = <<>>
    /\ valid_in = NoInput
    /\ valid_out = FALSE
    /\ SideIdle

GateNext ==
    \/ \E tool \in WriteTools : GateCall(tool)
    \/ \E i \in 1..MaxGateCalls, v \in WrappedResults : WrappedReturn(i, v)
    \/ \E i \in 1..MaxGateCalls : WrappedRaise(i)

GateSpec == GateInit /\ [][GateNext]_vars


---------------------------------------------------------------------------
(* TokenStore.is_valid on its own: the fields and the clock are drawn      *)
(* around the 60 s buffer, and the property is evaluated on them.          *)

ValidTokens == {"", "a1"}
ValidExpiries == {0, 59, 60, 61, 62, 63, 120}
ValidTimes == {0, 1, 2, 3, 61, 200}

ValidInputs ==
    [tok : ValidTokens, inf : BOOLEAN, exp : ValidExpiries, t : ValidTimes,
     evaluated : {FALSE}]

\* store.is_valid is read.
EvalIsValid ==
    /\ ~valid_in.evaluated
    /\ valid_in' = [valid_in EXCEPT !.evaluated = TRUE]
    /\ valid_out' = IsValidAt(valid_in.tok, valid_in.inf, valid_in.exp, valid_in.t)
    /\ UNCHANGED <<settings, keyring_backend, keyring_password, phase,
                   tokenVars, now, srv_issued, req, calls_started, gateVars,
                   seeded, renewal_log, sideVars>>

ValidInit ==
    /\ settings \in [access_token : {""}, client_id : {"cid"},
                     client_secret : {"sec"}, refresh_token : {""},
                     read_only : {FALSE}, max_write_calls_per_session : {0}]
    /\ keyring_backend = "ok"
    /\ keyring_password = ""
    /\ phase = "running"
    /\ access_token = ""
    /\ refresh_token = ""
    /\ expires_at = 0
    /\ expires_inf = FALSE
    /\ now = 0
    /\ srv_issued = 0
    /\ req = [r \in Requests |-> Idle]
    /\ calls_started = 0
    /\ write_call_count = 0
    /\ gate_log = <<>>
    /\ seeded = NotSeeded
    /\ renewal_log = <<>>
    /\ valid_in \in ValidInputs
    /\ valid_out = FALSE
    /\ SideIdle

ValidNext == EvalIsValid

ValidSpec == ValidInit /\ [][ValidNext]_vars


---------------------------------------------------------------------------
(* Properties of the write gate (GateSpec).                                *)

Invoked(e) == e.state \in {"running", "returned", "raised"} /\ e.verdict = "invoke"

\* C3: with read-only mode active, whatever the ceiling and whatever the
\* sequence of gated calls, no wrapped operation is invoked, the counter
\* stays where it was, and every call has returned (not raised) a dict
\* whose error is the read-only message.
C3_ReadOnlyRejectsAll ==
    settings.read_only =>
        /\ write_call_count = 0
        /\ \A i \in 1..Len(gate_log) :
              /\ ~Invoked(gate_log[i])
              /\ gate_log[i].state = "returned"
              /\ gate_log[i].count = 0
              /\ gate_log[i].result.data = NoKey
              /\ gate_log[i].result.error =
                   "This server is running in read-only mode (TOCONLINE_READ_ONLY=true). Write operations (create, update, delete, finalize, send) are disabled."

\* Read-only with a positive ceiling, three calls made to two tools.
C3_Witness ==
    /\ settings.read_only
    /\ settings.max_write_calls_per_session = 1
    /\ Len(gate_log) = 3
    /\ gate_log[1].tool # gate_log[2].tool

\* C4: read-only off and a ceiling N > 0: of the gated calls of the
\* process, all tools together, the first N invoke their operation and
\* every later one returns the rate-limit error that names N, its
\* operation not invoked.
C4_CeilingAdmitsFirstN ==
    (~settings.read_only /\ settings.max_write_calls_per_session > 0) =>
        \A i \in 1..Len(gate_log) :
            IF i <= settings.max_write_calls_per_session
            THEN Invoked(gate_log[i])
            ELSE /\ gate_log[i].verdict = "rate_limited"
                 /\ gate_log[i].state = "returned"
                 /\ gate_log[i].result.data = NoKey
                 /\ gate_log[i].result.error =
                      "Write operation rate limit exceeded (max "
                        \o ToString(settings.max_write_calls_per_session)
                        \o " per session). This safety limit prevents runaway automation. Adjust TOCONLINE_MAX_WRITE_CALLS_PER_SESSION to change the limit."

\* Ceiling 2, four calls: two operations invoked (on different tools), the
\* third and the fourth call rejected.
C4_Witness ==
    /\ ~settings.read_only
    /\ settings.max_write_calls_per_session = 2
    /\ Len(gate_log) = 4
    /\ gate_log[1].tool # gate_log[2].tool
    /\ gate_log[2].state = "returned" /\ gate_log[2].verdict = "invoke"
    /\ gate_log[3].verdict = "rate_limited"
    /\ gate_log[4].verdict = "rate_limited"


---------------------------------------------------------------------------
(* Property of is_valid (ValidSpec).                                       *)

\* C9: is_valid is true exactly when a bearer is held and the expiry is
\* more than 60 s after the clock: with exactly 60 s left, with less, or
\* with the expiry in the past it is false, and without a bearer it is
\* false whatever the expiry (an infinite one included).
C9_ValidExactlyBeyondBuffer ==
    valid_in.evaluated =>
        LET left == valid_in.exp - valid_in.t
            held == valid_in.tok # ""
        IN  /\ (held /\ (valid_in.inf \/ left > 60)) => valid_out
            /\ (~valid_in.inf /\ left <= 60) => ~valid_out
            /\ ~held => ~valid_out

\* A held bearer with exactly 60 s left has been found invalid.
C9_Witness ==
    /\ valid_in.evaluated
    /\ valid_in.tok = "a1"
    /\ ~valid_in.inf
    /\ valid_in.exp = 63 /\ valid_in.t = 3
    /\ ~valid_out


---------------------------------------------------------------------------
(* Properties of _request (Spec).                                          *)

\* The renewal whose response is resp ran to its end.
Completed(resp) ==
    /\ resp.status >= 200 /\ resp.status <= 299
    /\ resp.access_token # NoKey
    /\ resp.expires_kind # "bad"

FirstRecv(q) == q.trace[Nth(EvIdx(q, "recv"), 1)]
SecondRecv(q) == q.trace[Nth(EvIdx(q, "recv"), 2)]
FirstIs401(q) == NumEv(q, "recv") >= 1 /\ FirstRecv(q).status = 401

\* The events of a kind after the first response.
AfterFirstRecv(q, kind) ==
    {i \in EvIdx(q, kind) : \E j \in EvIdx(q, "recv") : j < i}

\* Two sends of the call's own method, path and arguments, two responses,
\* one renewal POST between them, and the outcome that of the second
\* response: its body returned on 2xx, the typed error with its status
\* otherwise.
RetriedOnce(q) ==
    /\ Cardinality(AfterFirstRecv(q, "post")) = 1
    /\ NumEv(q, "send") = 2
    /\ \A i \in EvIdx(q, "send") : q.trace[i].call = q.call
    /\ NumEv(q, "recv") = 2
    /\ q.outcome.status = SecondRecv(q).status
    /\ q.outcome.body = SecondRecv(q).body
    /\ q.outcome.kind =
         IF SecondRecv(q).status >= 200 /\ SecondRecv(q).status <= 299
         THEN "return" ELSE "TOCOnlineError"

\* C1 as stated: every call whose first response is 401 renews once and
\* resends once, and ends with the outcome of the second response.
C1_Original ==
    \A r \in Requests :
        (req[r].pc = "done" /\ FirstIs401(req[r])) => RetriedOnce(req[r])

\* C1 as amended: a call whose first response is 401 calls the renewal
\* once; when that renewal runs to its end the call resends once and ends
\* with the outcome of the second response; when the renewal fails, the
\* call ends with the renewal's error after its single send.
C1_RetryOnceAfterCompletedRenewal ==
    \A r \in Requests :
        LET q == req[r] IN
        (q.pc = "done" /\ FirstIs401(q)) =>
            /\ Cardinality(AfterFirstRecv(q, "post")) <= 1
            /\ IF \E i \in AfterFirstRecv(q, "token") : Completed(q.trace[i].resp)
               THEN RetriedOnce(q)
               ELSE /\ NumEv(q, "send") = 1
                    /\ NumEv(q, "recv") = 1
                    /\ q.outcome.kind \in {"RuntimeError", "HTTPStatusError",
                                           "KeyError", "ValueError"}

\* A POST answered 401, then 200 after the renewal: the call returned.
C1_Witness ==
    \E r \in Requests :
        /\ req[r].pc = "done"
        /\ FirstIs401(req[r])
        /\ req[r].call.method = "POST"
        /\ NumEv(req[r], "recv") = 2
        /\ SecondRecv(req[r]).status = 200
        /\ req[r].outcome.kind = "return"

C5_StepsInOrder ==
    \A r \in Requests :
        LET q == req[r]
            t == q.trace
        IN
        /\ q.pc # "idle" => (Len(t) >= 1 /\ t[1].ev = "validate")
        /\ \A i \in 2..Len(t) :
              CASE t[i].ev = "post" ->
                      \/ /\ t[i - 1].ev = "validate"
                         /\ t[i - 1].ok
                         /\ ~q.entry_valid
                      \/ /\ t[i - 1].ev = "recv"
                         /\ t[i - 1].status = 401
                         /\ i - 1 = Nth(EvIdx(q, "recv"), 1)
                [] t[i].ev = "token" -> t[i - 1].ev = "post"
                [] t[i].ev = "store" -> t[i - 1].ev = "token"
                [] t[i].ev = "send" ->
                      \/ /\ t[i - 1].ev = "validate"
                         /\ t[i - 1].ok
                         /\ q.entry_valid
                      \/ /\ t[i - 1].ev \in {"token", "store"}
                         /\ \/ ~q.entry_valid
                            \/ NumEv(q, "recv") >= 1
                               /\ i > Nth(EvIdx(q, "recv"), 1)
                [] t[i].ev = "recv" -> t[i - 1].ev = "send"
                [] OTHER -> FALSE

\* A call that found the token invalid, renewed, sent, was answered 401,
\* renewed again, resent and was answered.
C5_Witness ==
    \E r \in Requests :
        /\ req[r].pc = "done"
        /\ ~req[r].entry_valid
        /\ [i \in 1..Len(req[r].trace) |-> req[r].trace[i].ev] =
             <<"validate", "post", "token", "store", "send", "recv",
               "post", "token", "send", "recv">>


---------------------------------------------------------------------------
(* Properties of TokenStore.refresh (Spec).                                *)

\* The events a step adds to the history of r.
NewEvents(r) ==
    SubSeq(req'[r].trace, Len(req[r].trace) + 1, Len(req'[r].trace))

\* C6: a step in which refresh() returns normally leaves the bearer equal
\* to the response's access token and the expiry at the clock plus the
\* reported lifetime, 7890000 s when none is reported; with a refresh
\* string in the response the held one becomes that string and one store
\* of that string is attempted; without one the held string and the vault
\* stay as they were and no store is attempted.
C6_RefreshAppliesResponse ==
    [][\A r \in Requests :
          LET p == NewEvents(r)[1].resp
              stores == SelectSeq(NewEvents(r), LAMBDA e : e.ev = "store")
          IN
          (req[r].pc \in {"renew1", "renew2"} /\ req'[r].pc \in {"api1", "api2"}) =>
              /\ access_token' = p.access_token
              /\ ~expires_inf'
              /\ expires_at' =
                   now + (IF p.expires_kind = "int" THEN p.expires_in ELSE 7890000)
              /\ IF p.refresh_token # NoKey
                 THEN /\ refresh_token' = p.refresh_token
                      /\ Len(stores) = 1
                      /\ stores[1].val = p.refresh_token
                 ELSE /\ refresh_token' = refresh_token
                      /\ Len(stores) = 0
                      /\ keyring_password' = keyring_password
     ]_vars

\* refresh() has just applied {a1, r1, no expires_in} and stored r1.
C6_Witness ==
    \E r \in Requests :
        /\ req[r].pc = "api1"
        /\ Len(req[r].trace) = 5
        /\ req[r].trace[4].ev = "store"
        /\ req[r].trace[4].val = "r1"
        /\ refresh_token = "r1"
        /\ access_token = "a1"
        /\ expires_at = now + 7890000

\* The step is one in which request r calls refresh(): a new call with an
\* accepted path finds the token invalid, or the first response is a 401.
CallsRefresh(r) ==
    \/ /\ req'[r].seq # req[r].seq
       /\ req'[r].trace[1].ok
       /\ ~req'[r].entry_valid
    \/ /\ req[r].pc = "api1"
       /\ Len(NewEvents(r)) >= 1
       /\ NewEvents(r)[1].ev = "recv"
       /\ NewEvents(r)[1].status = 401

\* C7: when refresh() is called with the client id or the client secret
\* empty, or with neither a held nor a configured refresh string, the call
\* ends in that step with the configuration error, nothing is POSTed or
\* sent, and the bearer, the expiry, the held refresh string and the vault
\* are as before.
C7_ConfigurationErrorBeforeNetwork ==
    [][\A r \in Requests :
          ( /\ CallsRefresh(r)
            /\ \/ settings.client_id = ""
               \/ settings.client_secret = ""
               \/ (refresh_token = "" /\ settings.refresh_token = "") ) =>
              /\ req'[r].pc = "done"
              /\ req'[r].outcome.kind = "RuntimeError"
              /\ req'[r].post = NoForm
              /\ \A i \in 1..Len(NewEvents(r)) :
                    NewEvents(r)[i].ev \in {"validate", "recv"}
              /\ srv_issued' = srv_issued
              /\ UNCHANGED <<access_token, expires_at, expires_inf,
                             refresh_token, keyring_password>>
     ]_vars

\* A renewal was refused for the missing secret although a refresh string
\* from the vault was held.
C7_Witness ==
    \E r \in Requests :
        /\ req[r].pc = "done"
        /\ req[r].outcome.kind = "RuntimeError"
        /\ settings.client_id = "cid"
        /\ settings.client_secret = ""
        /\ refresh_token = "kr"

\* The paths the allow-list refuses.
Refused(path) ==
    \/ path \in {PathTraversal, PathNoPrefix, PathBadChar}
    \/ ~PathAccepted(path)

\* C8: a call with a refused path has ended with the validation error
\* with nothing in its history but the check: no renewal POST, no send;
\* and the step that starts it leaves the TokenStore, the vault and the
\* token endpoint as they were.
C8_RefusedPathNoNetwork ==
    /\ [](\A r \in Requests :
            (req[r].pc # "idle" /\ Refused(req[r].call.path)) =>
                /\ req[r].pc = "done"
                /\ req[r].outcome.kind = "ValueError"
                /\ req[r].outcome.detail = "unsafe_path"
                /\ req[r].post = NoForm
                /\ Len(req[r].trace) = 1
                /\ req[r].trace[1].ev = "validate")
    /\ [][\A r \in Requests :
            (req'[r].seq # req[r].seq /\ Refused(req'[r].call.path)) =>
                UNCHANGED <<access_token, expires_at, expires_inf,
                            refresh_token, keyring_password, srv_issued>>
       ]_vars

\* A traversal path was refused while the token was invalid and a renewal
\* was possible.
C8_Witness ==
    \E r \in Requests :
        /\ req[r].pc = "done"
        /\ req[r].call.path = PathTraversal
        /\ ~req[r].entry_valid
        /\ req[r].outcome.kind = "ValueError"
        /\ refresh_token # ""
        /\ settings.client_id # "" /\ settings.client_secret # ""

---------------------------------------------------------------------------
(* The refresh-only scenario (Spec).                                       *)

\* The last token response refresh() received.
LastRenewal ==
    IF renewal_log = <<>> THEN NoRenewal ELSE renewal_log[Len(renewal_log)]

ReportedLifetime(resp) ==
    IF resp.expires_kind = "int" THEN resp.expires_in ELSE DefaultExpiresIn

\* The first call of a process seeded with a refresh string finds the
\* token invalid and, before it sends anything to the API, has POSTed one
\* refresh grant carrying that string.
FirstCallRenewsWithSeed(q) ==
    ( /\ seeded.kind = "refresh"
      /\ q.seq = 1
      /\ q.trace[1].ok ) =>
        /\ ~q.entry_valid
        /\ q.pc = "renew1" =>
             /\ q.post.grant_type = "refresh_token"
             /\ q.post.refresh_token = seeded.value
        /\ NumEv(q, "send") >= 1 =>
             LET before == {i \in EvIdx(q, "post") :
                               i < Nth(EvIdx(q, "send"), 1)}
             IN  /\ Cardinality(before) = 1
                 /\ \A i \in before :
                       /\ q.trace[i].form.grant_type = "refresh_token"
                       /\ q.trace[i].form.refresh_token = seeded.value

\* Call q, started in the validity window of the renewal e and not
\* answered 401, has sent the bearer of e once and renewed nothing, and
\* the held refresh string is the one e brought.
UsesRenewal(q, e) ==
    ( /\ seeded.kind = "refresh"
      /\ Completed(e.resp)
      /\ q.seq > e.seq
      /\ q.trace[1].ok
      /\ q.started_at < e.at + ReportedLifetime(e.resp) - 60
      /\ NumEv(q, "recv") >= 1 => FirstRecv(q).status # 401 ) =>
        /\ NumEv(q, "post") = 0
        /\ NumEv(q, "send") = 1
        /\ \A i \in EvIdx(q, "send") :
              q.trace[i].auth = "Bearer " \o e.resp.access_token
        /\ e.resp.refresh_token # NoKey =>
              refresh_token = e.resp.refresh_token

\* C10 as stated: the first call renews with the seeded string, and every
\* later call started in the validity window of the response {a, r', L}
\* to that renewal and not answered 401 sends 'Bearer a' without renewing,
\* the held refresh string being r'.
C10_Original ==
    \A r \in Requests :
        /\ FirstCallRenewsWithSeed(req[r])
        /\ (Len(renewal_log) >= 1 /\ renewal_log[1].seq = 1) =>
              UsesRenewal(req[r], renewal_log[1])

\* C10 as amended: the same, for the response {a, r', L} of a completed
\* renewal as long as no later renewal has been answered: a 401 to an
\* earlier call, the first one included, renews again and replaces a and
\* r' inside the window.
C10_RefreshOnlyScenario ==
    \A r \in Requests :
        /\ FirstCallRenewsWithSeed(req[r])
        /\ LastRenewal.seq >= 1 => UsesRenewal(req[r], LastRenewal)

\* Seeded from the vault; the first call renewed at time 0 and was given
\* {a1, r1, 61}; the second call, started at time 0, returned without a
\* renewal.
C10_Witness ==
    \E r \in Requests :
        /\ seeded = [kind |-> "refresh", value |-> "kr"]
        /\ settings.refresh_token = "envr"
        /\ LastRenewal.seq = 1
        /\ LastRenewal.at = 0
        /\ LastRenewal.resp.access_token = "a1"
        /\ LastRenewal.resp.refresh_token = "r1"
        /\ LastRenewal.resp.expires_kind = "int"
        /\ LastRenewal.resp.expires_in = 61
        /\ req[r].seq = 2
        /\ req[r].started_at = 0
        /\ req[r].pc = "done"
        /\ req[r].outcome.kind = "return"
        /\ NumEv(req[r], "post") = 0
        /\ refresh_token = "r1"

---------------------------------------------------------------------------
(* The refresh string a renewal sends (Spec).                              *)

\* The refresh strings that token responses received earlier in the call
\* q, before its event i, brought with a completed renewal.
RotatedBefore(q, i) ==
    {j \in EvIdx(q, "token") :
        /\ j < i
        /\ Completed(q.trace[j].resp)
        /\ q.trace[j].resp.refresh_token # NoKey}

\* The string held when nothing was received since the process started.
SeededRefresh == IF seeded.kind = "refresh" THEN seeded.value ELSE ""

\* C11: every renewal POST carries the refresh string held when the
\* renewal started: the one the latest rotating response brought, or else
\* the seeded one; the configured refresh string is sent only when none
\* is held.
C11_RenewalSendsHeldString ==
    \A r \in Requests :
        LET q == req[r] IN
        \A i \in EvIdx(q, "post") :
            LET e == q.trace[i]
                rot == RotatedBefore(q, i)
            IN
            /\ e.form.grant_type = "refresh_token"
            /\ e.form.refresh_token =
                 IF e.held # "" THEN e.held ELSE settings.refresh_token
            /\ rot # {} =>
                 e.held = q.trace[Nth(rot, Cardinality(rot))].resp.refresh_token
            /\ (rot = {} /\ q.pc = "renew1" /\ renewal_log = <<>>) =>
                 e.held = SeededRefresh
            /\ ( /\ rot = {} /\ q.pc = "renew1"
                 /\ LastRenewal.seq >= 1
                 /\ Completed(LastRenewal.resp)
                 /\ LastRenewal.resp.refresh_token # NoKey ) =>
                 e.held = LastRenewal.resp.refresh_token

\* In a process seeded from the vault with another string configured, the
\* second renewal of a call sends the string r1 the first one brought.
C11_Witness ==
    \E r \in Requests :
        LET q == req[r] IN
        /\ settings.refresh_token = "envr"
        /\ seeded = [kind |-> "refresh", value |-> "kr"]
        /\ NumEv(q, "post") = 2
        /\ q.trace[Nth(EvIdx(q, "post"), 1)].form.refresh_token = "kr"
        /\ q.trace[Nth(EvIdx(q, "post"), 2)].held = "r1"
        /\ q.trace[Nth(EvIdx(q, "post"), 2)].form.refresh_token = "r1"

---------------------------------------------------------------------------
(* A process configured with a static bearer whose calls are all answered  *)
(* 200 (StaticSpec).                                                       *)

ApiOk == {resp \in CoreResponses : resp.status = 200}

StaticInit == Init /\ settings.access_token # ""

StaticNext ==
    \/ Lifespan
    \/ \E r \in Sequential, c \in Calls : Start(r, c)
    \/ \E r \in Sequential, resp \in ApiOk : ApiReturn(r, resp)
    \/ Tick

StaticSpec == StaticInit /\ [][StaticNext]_vars

\* C12: once load_static has loaded the bearer t, is_valid is true and the
\* header value is 'Bearer t'; over calls that are all answered 200 no
\* renewal is POSTed and every send to the API carries 'Bearer t'.
C12_StaticBearerNeverRenews ==
    phase = "running" =>
        /\ seeded = [kind |-> "static", value |-> "static"]
        /\ IsValid
        /\ Bearer(access_token) = "Bearer static"
        /\ \A r \in Requests :
              LET q == req[r] IN
              /\ NumEv(q, "post") = 0
              /\ \A i \in EvIdx(q, "send") : q.trace[i].auth = "Bearer static"
              /\ q.pc = "done" /\ q.trace[1].ok =>
                    /\ NumEv(q, "send") = 1
                    /\ q.outcome.kind = "return"

\* The second call of the process has returned, a tick after the start.
C12_Witness ==
    \E r \in Requests :
        /\ seeded.kind = "static"
        /\ now = 1
        /\ req[r].seq = 2
        /\ req[r].pc = "done"
        /\ req[r].outcome.kind = "return"
        /\ NumEv(req[r], "send") = 1

---------------------------------------------------------------------------
(* A process seeded with a static bearer, whatever the API answers (Spec). *)

\* C13 as stated: once load_static has loaded a bearer, is_valid is true
\* in every later state.
C13_Original == seeded.kind = "static" => IsValid

\* C13 as amended: once load_static has loaded a bearer, is_valid is true
\* at every later time, whatever the calls and the API responses, until a
\* token response carrying an access token is received; such a response
\* can only answer the renewal that follows a 401.
C13_StaticValidUntilRenewed ==
    (seeded.kind = "static" /\ renewal_log = <<>>) =>
        /\ IsValid
        /\ expires_inf
        /\ access_token = seeded.value

\* The static bearer is still valid a tick after a call that was answered
\* 401 and whose renewal the token endpoint refused.
C13_Witness ==
    \E r \in Requests :
        /\ seeded.kind = "static"
        /\ renewal_log = <<>>
        /\ now = 1
        /\ req[r].pc = "done"
        /\ FirstIs401(req[r])
        /\ req[r].outcome.kind = "HTTPStatusError"
        /\ IsValid

\* The call q made a renewal attempt: refresh() POSTed, or raised one of
\* its configuration errors.
AttemptedRenewal(q) ==
    \/ NumEv(q, "post") >= 1
    \/ q.outcome.kind = "RuntimeError"

\* No token response had been applied when the call q started.
StartedUnrenewed(q) ==
    q.seq >= 1 /\ (renewal_log = <<>> \/ renewal_log[1].seq >= q.seq)

\* C14 as stated: in a process seeded by load_static no call ever attempts
\* a renewal, whatever the API answers.
C14_Original ==
    seeded.kind = "static" => \A r \in Requests : ~AttemptedRenewal(req[r])

\* C14 as amended: in a process seeded by load_static, as long as no token
\* response has been applied, a call finds the bearer valid, sends it
\* first, and attempts a renewal only after that send was answered 401.
C14_StaticRenewsOnlyOn401 ==
    seeded.kind = "static" =>
        \A r \in Requests :
            LET q == req[r] IN
            (StartedUnrenewed(q) /\ q.trace[1].ok) =>
                /\ q.entry_valid
                /\ q.trace[2] = EvSend(q.call, "Bearer " \o seeded.value)
                /\ \A i \in EvIdx(q, "post") \cup EvIdx(q, "token") :
                      /\ FirstIs401(q)
                      /\ i > Nth(EvIdx(q, "recv"), 1)
                /\ AttemptedRenewal(q) => FirstIs401(q)
                /\ (NumEv(q, "recv") >= 1 /\ ~FirstIs401(q)) =>
                      /\ q.pc = "done"
                      /\ ~AttemptedRenewal(q)

\* A statically seeded process with credentials and a refresh string
\* configured: the call was answered 401, renewed, and resent with the new
\* bearer.
C14_Witness ==
    \E r \in Requests :
        /\ seeded.kind = "static"
        /\ StartedUnrenewed(req[r])
        /\ req[r].pc = "done"
        /\ FirstIs401(req[r])
        /\ NumEv(req[r], "post") = 1
        /\ NumEv(req[r], "send") = 2
        /\ req[r].trace[Nth(EvIdx(req[r], "send"), 2)].auth = "Bearer a1"

---------------------------------------------------------------------------
(* Seeding at process start (Spec).                                        *)

\* The fields of a TokenStore nothing was loaded into.
StoreEmpty ==
    access_token = "" /\ refresh_token = "" /\ expires_at = 0 /\ ~expires_inf

\* C15: after lifespan has seeded the store and before any call, the store
\* holds exactly what the first applicable source gives: the configured
\* static bearer, with infinite expiry and no refresh string; else the
\* refresh string of the vault; else the configured refresh string; else
\* nothing.
C15_SeedingPriority ==
    /\ phase = "boot" => StoreEmpty /\ seeded = NotSeeded
    /\ (phase = "running" /\ calls_started = 0) =>
          IF settings.access_token # ""
          THEN /\ access_token = settings.access_token
               /\ expires_inf
               /\ refresh_token = ""
               /\ seeded = [kind |-> "static", value |-> settings.access_token]
          ELSE IF keyring_backend = "ok" /\ keyring_password # ""
          THEN /\ refresh_token = keyring_password
               /\ access_token = "" /\ expires_at = 0 /\ ~expires_inf
               /\ seeded = [kind |-> "refresh", value |-> keyring_password]
          ELSE IF settings.refresh_token # ""
          THEN /\ refresh_token = settings.refresh_token
               /\ access_token = "" /\ expires_at = 0 /\ ~expires_inf
               /\ seeded = [kind |-> "refresh", value |-> settings.refresh_token]
          ELSE StoreEmpty /\ seeded = NotSeeded

\* No static bearer, a string in the vault and another one configured:
\* the one of the vault was loaded.
C15_Witness ==
    /\ phase = "running"
    /\ calls_started = 0
    /\ settings.access_token = ""
    /\ settings.refresh_token = "envr"
    /\ keyring_password = "kr"
    /\ refresh_token = "kr"
    /\ access_token = ""

---------------------------------------------------------------------------
(* Calls answered with every status and body (ErrSpec): a process with a   *)
(* static bearer, client credentials and a configured refresh string,      *)
(* whose API answers anything in ApiResponses.  Time plays no part.        *)

ErrInit ==
    /\ Init
    /\ settings = [access_token |-> "static", client_id |-> "cid",
                   client_secret |-> "sec", refresh_token |-> "envr",
                   read_only |-> FALSE, max_write_calls_per_session |-> 0]
    /\ keyring_backend = "ok"
    /\ keyring_password = ""

ErrCalls == {c \in Calls : c.path = PathCustomers}

ErrNext ==
    \/ Lifespan
    \/ \E r \in Sequential, c \in ErrCalls : Start(r, c)
    \/ \E r \in Sequential : \E resp \in TokenResponses(srv_issued) :
          RefreshReturn(r, resp)
    \/ \E r \in Sequential, resp \in ApiResponses : ApiReturn(r, resp)

ErrSpec == ErrInit /\ [][ErrNext]_vars

StartsWith(s, prefix) ==
    Len(s) >= Len(prefix) /\ SubSeq(s, 1, Len(prefix)) = prefix

\* The errors value of the body is one TOCOnlineError can be built from:
\* absent, or a list of objects.
WellFormedErrors(text) ==
    Json(text).kind # "object"
      \/ Json(text).errors.type \in {"missing", "list"}

HasFinal(q) ==
    \/ NumEv(q, "recv") = 2
    \/ NumEv(q, "recv") = 1 /\ FirstRecv(q).status # 401

Final(q) == IF NumEv(q, "recv") = 2 THEN SecondRecv(q) ELSE FirstRecv(q)

\* The bodies of the structured shape: a JSON object whose errors value
\* is a list of objects, one at least.
Structured ==
    {"{errors:[{code:E1,detail:bad}]}",
     "{errors:[{code:E1,detail:bad},{detail:worse}]}",
     "{errors:[{code:E3}]}", "{errors:[{}]}"}

\* C17: whenever the final response of a call has a non-success status,
\* the call has raised TOCOnlineError with that status, whatever the body;
\* when the body has not the structured shape, the entries of the error
\* are the one entry made of the status and the raw text.
C17_Original ==
    \A r \in Requests :
        LET q == req[r] IN
        (q.pc = "done" /\ HasFinal(q) /\ ~IsSuccess(Final(q).status)) =>
            /\ q.outcome.kind = "TOCOnlineError"
            /\ q.outcome.status = Final(q).status
            /\ Final(q).body \notin Structured =>
                  q.outcome.errors =
                     <<[code |-> ToString(Final(q).status),
                        detail |-> Final(q).body]>>

---------------------------------------------------------------------------
(* More properties of the write gate (GateSpec).                           *)

\* The step is a gated call: the wrapper ran up to its return or up to the
\* await of the wrapped operation.
IsGateCall == Len(gate_log') = Len(gate_log) + 1

\* C18: the counter never decreases; a gated call adds exactly 1 to it
\* when read-only is off and the ceiling is positive, whether the call is
\* then admitted or rejected, and the operation of an admitted call starts
\* with the counter already incremented; it adds 0 when read-only is on or
\* the ceiling is zero; the return or the exception of a wrapped operation
\* leaves the counter as it is.
C18_CounterMonotonic ==
    [][ /\ write_call_count' >= write_call_count
        /\ IsGateCall =>
              LET e == gate_log'[Len(gate_log')] IN
              /\ (~settings.read_only
                    /\ settings.max_write_calls_per_session > 0) =>
                    /\ write_call_count' = write_call_count + 1
                    /\ e.count = write_call_count + 1
                    /\ e.verdict \in {"invoke", "rate_limited"}
              /\ (settings.read_only
                    \/ settings.max_write_calls_per_session = 0) =>
                    write_call_count' = write_call_count
        /\ ~IsGateCall => write_call_count' = write_call_count
      ]_vars

\* Ceiling 1: the first call was admitted and its operation raised, two
\* more calls were rejected, and the counter stands at 3.
C18_Witness ==
    /\ ~settings.read_only
    /\ settings.max_write_calls_per_session = 1
    /\ Len(gate_log) = 3
    /\ gate_log[1].state = "raised"
    /\ gate_log[3].verdict = "rate_limited"
    /\ write_call_count = 3

\* C19: with read-only off and a ceiling of 0, every gated call, however
\* many there are, invokes its wrapped operation and, when that operation
\* returns, returns its result; none is rejected and the counter is not
\* touched.
C19_ZeroCeilingUnlimited ==
    (~settings.read_only /\ settings.max_write_calls_per_session = 0) =>
        /\ write_call_count = 0
        /\ \A i \in 1..Len(gate_log) :
              LET e == gate_log[i] IN
              /\ e.verdict = "invoke"
              /\ Len(e.called) = 1
              /\ e.state = "returned" =>
                    /\ e.result.error = NoKey
                    /\ e.result.data = e.func_result
                    /\ e.result.data \in {"created", "deleted"}

\* Ceiling 0: as many calls as the bound allows, all returned.
C19_Witness ==
    /\ ~settings.read_only
    /\ settings.max_write_calls_per_session = 0
    /\ Len(gate_log) = MaxGateCalls
    /\ \A i \in 1..Len(gate_log) :
          gate_log[i].state = "returned" /\ gate_log[i].result.error = NoKey

\* The gate does not reject the call recorded as e.
NotRejected(e) ==
    /\ ~settings.read_only
    /\ \/ settings.max_write_calls_per_session = 0
       \/ /\ settings.max_write_calls_per_session > 0
          /\ e.count <= settings.max_write_calls_per_session

\* C20: when the gate does not reject a call, the wrapped operation is
\* invoked once, with the arguments of the caller, and what the gate
\* returns is what the operation returned.
C20_PassThrough ==
    \A i \in 1..Len(gate_log) :
        LET e == gate_log[i] IN
        NotRejected(e) =>
            /\ Len(e.called) = 1
            /\ e.called[1] = e.args
            /\ e.args = IF e.tool = "create_customer"
                        THEN <<"ctx", "name=Ana">> ELSE <<"ctx", "id=7">>
            /\ e.state = "returned" =>
                  /\ e.func_result \in {"created", "deleted"}
                  /\ e.result = [error |-> NoKey, data |-> e.func_result]

\* Ceiling 2: the second call, to delete_customer, was passed through and
\* returned what the operation returned.
C20_Witness ==
    /\ ~settings.read_only
    /\ settings.max_write_calls_per_session = 2
    /\ Len(gate_log) >= 2
    /\ gate_log[2].tool = "delete_customer"
    /\ gate_log[2].called = <<(<<"ctx", "id=7">>)>>
    /\ gate_log[2].state = "returned"
    /\ gate_log[2].result.data = "deleted"

---------------------------------------------------------------------------
(* keychain.py: store_refresh_token, load_refresh_token and                *)
(* delete_refresh_token, each called on its own.                           *)

\* A configuration without credentials of its own.
BareSettings ==
    [access_token |-> "", client_id |-> "cid", client_secret |-> "sec",
     refresh_token |-> "", read_only |-> FALSE,
     max_write_calls_per_session |-> 0]

\* The state of the variables of the server while a specification of
\* another part of the program runs.
ServerParked ==
    /\ phase = "boot"
    /\ access_token = ""
    /\ refresh_token = ""
    /\ expires_at = 0
    /\ expires_inf = FALSE
    /\ now = 0
    /\ srv_issued = 0
    /\ req = [r \in Requests |-> Idle]
    /\ calls_started = 0
    /\ write_call_count = 0
    /\ gate_log = <<>>
    /\ seeded = NotSeeded
    /\ renewal_log = <<>>
    /\ valid_in = NoInput
    /\ valid_out = FALSE

MaxKeychainCalls == 3

PyTrue == "True"
PyFalse == "False"

\* What the environment does to a call: "ImportError" when the keyring
\* package is not installed, "NoKeyringError" when no backend is available,
\* "Exception" when the backend fails in any other way.
KeychainBackends == {"ok", "ImportError", "NoKeyringError", "Exception"}
KeychainTokens == {"", "t1", "t2"}
KeychainFunctions == {"store", "load", "delete"}

\* The body of the try block: the import and the call of the keyring
\* function.  value is what the keyring function returns, raised the
\* exception that leaves the block, vault the entry afterwards.
TryKeyring(fn, token) ==
    IF keyring_backend # "ok"
    THEN [raised |-> keyring_backend, value |-> None,
          vault |-> keyring_password]
    ELSE CASE fn = "store" ->
                  [raised |-> "", value |-> None, vault |-> token]
           [] fn = "load" ->
                  [raised |-> "",
                   value |-> IF keyring_password = "" THEN None
                             ELSE keyring_password,
                   vault |-> keyring_password]
           [] fn = "delete" ->
                  IF keyring_password = ""
                  THEN [raised |-> "PasswordDeleteError", value |-> None,
                        vault |-> ""]
                  ELSE [raised |-> "", value |-> None, vault |-> ""]

\* Mutant: only the absence of a backend is handled.
CaughtNoKeyringOnly(fn) == {"ImportError", "NoKeyringError"}

\* The except clauses of each function: the exceptions they catch
\* (PasswordDeleteError is a subclass of Exception) ...
Caught(fn) ==
    {"ImportError", "NoKeyringError", "PasswordDeleteError", "Exception"}

\* ... and what the function returns from the clause that catches.
Handled(fn, raised) ==
    IF fn = "load" THEN None
    ELSE IF fn = "delete" /\ raised = "PasswordDeleteError" THEN PyTrue
    ELSE PyFalse

\* The return statement of the try block.
Returned(fn, value) ==
    IF fn = "load" THEN (IF value # None /\ value # "" THEN value ELSE None)
    ELSE PyTrue

KeychainResult(fn, token) ==
    LET t == TryKeyring(fn, token) IN
    IF t.raised = "" THEN [raised |-> "", returned |-> Returned(fn, t.value)]
    ELSE IF t.raised \in Caught(fn)
    THEN [raised |-> "", returned |-> Handled(fn, t.raised)]
    ELSE [raised |-> t.raised, returned |-> ""]

\* One of the three functions is called.
KeychainCall(fn, token) ==
    LET res == KeychainResult(fn, token) IN
    /\ key_call.n < MaxKeychainCalls
    /\ fn = "store" \/ token = ""
    /\ key_call' = [fn |-> fn, arg |-> token, before |-> keyring_password,
                    raised |-> res.raised, returned |-> res.returned,
                    n |-> key_call.n + 1]
    /\ keyring_password' = TryKeyring(fn, token).vault
    /\ UNCHANGED <<settings, keyring_backend, phase, tokenVars, now,
                   srv_issued, req, calls_started, gateVars, validVars,
                   seeded, renewal_log, path_check, login, pkce, srv_log,
                   auth_url>>

KeychainInit ==
    /\ settings = BareSettings
    /\ ServerParked
    /\ keyring_backend \in KeychainBackends
    /\ keyring_password \in {"", "kr"}
    /\ SideIdle

KeychainNext ==
    \E fn \in KeychainFunctions, token \in KeychainTokens :
        KeychainCall(fn, token)

KeychainSpec == KeychainInit /\ [][KeychainNext]_vars

\* C21: store_refresh_token, load_refresh_token and delete_refresh_token
\* never raise; when the keyring library is missing, no backend is
\* available or the backend raises, store and delete return False and load
\* returns None; delete returns True when the entry was already absent on
\* a working backend.
C21_KeychainNeverRaises ==
    key_call.fn # "" =>
        /\ key_call.raised = ""
        /\ keyring_backend # "ok" =>
              key_call.returned =
                  (IF key_call.fn = "load" THEN None ELSE PyFalse)
        /\ (key_call.fn = "delete" /\ keyring_backend = "ok"
               /\ key_call.before = "") => key_call.returned = PyTrue

\* Witness: a store on a backend that raised an unexpected exception
\* returned False.
C21_Witness ==
    /\ key_call.fn = "store"
    /\ key_call.arg = "t1"
    /\ keyring_backend = "Exception"
    /\ key_call.raised = ""
    /\ key_call.returned = PyFalse

---------------------------------------------------------------------------
(* Renewals whose write to the vault fails: a process seeded from          *)
(* TOCONLINE_REFRESH_TOKEN whose keyring is missing, has no backend or     *)
(* raises, next to one whose keyring works.                                *)

StoreFailInit ==
    /\ settings = [access_token |-> "", client_id |-> "cid",
                   client_secret |-> "sec", refresh_token |-> "envr",
                   read_only |-> FALSE, max_write_calls_per_session |-> 0]
    /\ keyring_backend \in KeychainBackends
    /\ keyring_password = ""
    /\ phase = "boot"
    /\ access_token = ""
    /\ refresh_token = ""
    /\ expires_at = 0
    /\ expires_inf = FALSE
    /\ now = 0
    /\ srv_issued = 0
    /\ req = [r \in Requests |-> Idle]
    /\ calls_started = 0
    /\ write_call_count = 0
    /\ gate_log = <<>>
    /\ seeded = NotSeeded
    /\ renewal_log = <<>>
    /\ valid_in = NoInput
    /\ valid_out = FALSE
    /\ SideIdle

StoreFailNext ==
    \/ Lifespan
    \/ \E r \in Sequential, c \in ErrCalls : Start(r, c)
    \/ \E r \in Sequential : \E resp \in TokenResponses(srv_issued) :
          RefreshReturn(r, resp)
    \/ \E r \in Sequential, resp \in CoreResponses : ApiReturn(r, resp)
    \/ Tick

StoreFailSpec == StoreFailInit /\ [][StoreFailNext]_vars

\* C22: a step of refresh() in which the write to the vault fails still
\* completes the renewal: the bearer, the expiry and the held refresh
\* string are those of the token response, the call has not ended with an
\* error, and the request is sent to the API with the new bearer.
C22_StoreFailureNotFatal ==
    [][\A r \in Requests :
          LET ev == NewEvents(r)
              failed == {i \in 1..Len(ev) : ev[i].ev = "store" /\ ~ev[i].ok}
          IN
          failed # {} =>
              LET p == ev[1].resp IN
              /\ ev[1].ev = "token"
              /\ access_token' = p.access_token
              /\ ~expires_inf'
              /\ expires_at' = now + ExpiresIn(p)
              /\ refresh_token' = p.refresh_token
              /\ \A i \in failed : ev[i].val = p.refresh_token
              /\ keyring_password' = keyring_password
              /\ req'[r].outcome = NoOutcome
              /\ req'[r].pc \in {"api1", "api2"}
              /\ ev[Len(ev)] = EvSend(req[r].call, Bearer(p.access_token))
     ]_vars

\* The keyring raised an unexpected exception while r1 was being stored;
\* the call went on, was sent with the new bearer and has returned.
C22_Witness ==
    \E r \in Requests :
        /\ keyring_backend = "Exception"
        /\ req[r].pc = "done"
        /\ req[r].outcome.kind = "return"
        /\ Len(req[r].trace) >= 6
        /\ req[r].trace[4] = EvStore("r1", FALSE)
        /\ req[r].trace[5].ev = "send"
        /\ req[r].trace[5].auth = Bearer("a1")
        /\ refresh_token = "r1"
        /\ access_token = "a1"
        /\ keyring_password = ""

---------------------------------------------------------------------------
(* The path guard of _request, evaluated on its own over every path made   *)
(* of one of three beginnings and up to MaxSuffix further characters.      *)

MaxSuffix == 3

PathPrefixes == {<<"/", "a", "p", "i">>, <<"/", "e", "t", "c">>, <<>>}
PathAlphabet == {"/", ".", "-", "_", "c", "1", "?", " ", "\n"}
PathSuffixes == UNION {[1..n -> PathAlphabet] : n \in 0..MaxSuffix}
PathInputs == {pre \o suf : pre \in PathPrefixes, suf \in PathSuffixes}

\* if not self._SAFE_PATH_RE.match(path) or ".." in path: raise ValueError
CheckPath ==
    /\ ~path_check.evaluated
    /\ path_check' =
          [path_check EXCEPT
              !.evaluated = TRUE,
              !.raised = IF PathAccepted(path_check.path) THEN ""
                         ELSE "ValueError"]
    /\ UNCHANGED <<settings, keyring_backend, keyring_password, phase,
                   tokenVars, now, srv_issued, req, calls_started, gateVars,
                   validVars, seeded, renewal_log, auth_url, key_call, login,
                   pkce,
                   srv_log>>

PathInit ==
    /\ settings = BareSettings
    /\ ServerParked
    /\ keyring_backend = "ok"
    /\ keyring_password = ""
    /\ key_call = NoKeychainCall
    /\ path_check \in [path : PathInputs, evaluated : {FALSE}, raised : {""}]
    /\ login = NoLogin
    /\ pkce = NoPkce
    /\ srv_log = <<>>
    /\ auth_url = NoAuthUrl

PathNext == CheckPath

PathSpec == PathInit /\ [][PathNext]_vars

\* C23: a path passes the guard exactly when it begins with "/api", each
\* of its characters is alphanumeric or one of "/", ".", "-", "_", and it
\* contains no "..".
C23_Original ==
    LET path == path_check.path IN
    path_check.evaluated =>
        (path_check.raised = "" <=>
            /\ Len(path) >= 4
            /\ SubSeq(path, 1, 4) = <<"/", "a", "p", "i">>
            /\ \A i \in 1..Len(path) :
                  path[i] \in {"c", "1", "a", "p", "i", "e", "t",
                               "/", ".", "-", "_"}
            /\ \A i \in 1..(Len(path) - 1) :
                  ~(path[i] = "." /\ path[i + 1] = "."))

---------------------------------------------------------------------------
(* cli.py: the command "toconline-mcp auth" (_auth_login).  The command    *)
(* blocks three times: while the browser is opened, at input(), and in     *)
(* asyncio.run(_exchange(...)); one action is the code between two of      *)
(* these.                                                                  *)

MaxParams == 2

\* _generate_state(), _generate_pkce_pair(): the random values of a run.
LoginStates == {"s1", "s2"}
LoginVerifier == "v1"

\* What the operator types at input().  A URL is a scheme, a host and path,
\* and a query of key=value pairs; anything else is typed as it is.
QueryPairs ==
    {<<"code", "C1">>, <<"code", "">>, <<"state", "s1">>,
     <<"state", "s2">>, <<"state", "">>}
Queries == UNION {[1..n -> QueryPairs] : n \in 0..MaxParams}
Schemes == {"https://", "http://", "HTTPS://"}
UserInputs ==
    [kind : {"url"}, pad : {"", " "}, scheme : Schemes, query : Queries,
     text : {""}]
    \cup
    [kind : {"raw"}, pad : {"", " "}, scheme : {""}, query : {<<>>},
     text : {"", "C1"}]

RECURSIVE JoinQuery(_)
JoinQuery(query) ==
    IF query = <<>> THEN ""
    ELSE query[1][1] \o "=" \o query[1][2]
         \o (IF Len(query) > 1 THEN "&" ELSE "") \o JoinQuery(Tail(query))

\* user_input.strip(): the text typed, without the whitespace (pad) the
\* operator typed around it.
Stripped(inp) ==
    IF inp.kind = "url"
    THEN inp.scheme \o "cb.example/cb?" \o JoinQuery(inp.query)
    ELSE inp.text

\* s.startswith(("http://", "https://"))
LooksLikeUrl(inp) ==
    LET s == Stripped(inp) IN
    \/ Len(s) >= 7 /\ SubSeq(s, 1, 7) = "http://"
    \/ Len(s) >= 8 /\ SubSeq(s, 1, 8) = "https://"

\* parse_qs(urlparse(s).query).get(key, [None])[0]: parse_qs leaves out
\* the pairs whose value is blank and lists the values of a key in order.
QsFirst(inp, key) ==
    LET vals == SelectSeq(inp.query, LAMBDA kv : kv[1] = key /\ kv[2] # "")
    IN IF vals = <<>> THEN None ELSE vals[1][2]

\* Mutant: the state of the callback is not compared.
StateRejectedNever(inp, expected_state) == FALSE

\* Mutant: a callback without a state is let through.
StateRejectedWhenPresent(inp, expected_state) ==
    /\ LooksLikeUrl(inp)
    /\ QsFirst(inp, "state") # None
    /\ QsFirst(inp, "state") # expected_state

\* l.126-136: the state check; TRUE when the command aborts on it.
StateRejected(inp, expected_state) ==
    LooksLikeUrl(inp) /\ QsFirst(inp, "state") # expected_state

\* _extract_code(user_input)
ExtractCode(inp) ==
    IF Stripped(inp) = "" THEN None
    ELSE IF LooksLikeUrl(inp) THEN QsFirst(inp, "code")
    ELSE Stripped(inp)

\* sys.exit(1) after a message on stderr, or an exception nobody catches.
Exit1(l, pc, message) ==
    [l EXCEPT !.pc = pc, !.visited = Append(@, pc), !.exited = TRUE,
              !.status = 1, !.stderr = message]

LoginUnchanged ==
    UNCHANGED <<settings, keyring_backend, phase, tokenVars, now,
                srv_issued, req, calls_started, gateVars, validVars, seeded,
                renewal_log, auth_url, key_call, path_check, pkce, srv_log>>

\* l.98-110: get_settings, the check of the client credentials,
\* make_auth_url.
LoginStart(state) ==
    /\ login.pc = "not_started"
    /\ login' =
         IF settings.client_id = "" \/ settings.client_secret = ""
         THEN Exit1([login EXCEPT !.vault_before = keyring_password],
                    "aborted", "client credentials missing")
         ELSE [login EXCEPT !.pc = "awaiting_browser_login",
                            !.visited = Append(@, "awaiting_browser_login"),
                            !.expected_state = state,
                            !.code_verifier = LoginVerifier,
                            !.vault_before = keyring_password]
    /\ UNCHANGED keyring_password
    /\ LoginUnchanged

\* l.113-121: webbrowser.open(auth_url) returns, the prompt is shown.
BrowserOpened ==
    /\ login.pc = "awaiting_browser_login"
    /\ login' = [login EXCEPT
                    !.pc = "awaiting_callback_paste",
                    !.visited = Append(@, "awaiting_callback_paste")]
    /\ UNCHANGED keyring_password
    /\ LoginUnchanged

\* l.121-124: input() raises KeyboardInterrupt or EOFError.
PasteCancelled ==
    /\ login.pc = "awaiting_callback_paste"
    /\ login' = Exit1(login, "aborted", "cancelled")
    /\ UNCHANGED keyring_password
    /\ LoginUnchanged

\* l.121-150 and auth.py l.92-108: input() returns, the state check, the
\* extraction of the code, and the POST of the authorization_code grant.
Paste(inp) ==
    /\ login.pc = "awaiting_callback_paste"
    /\ login' =
         LET l == [login EXCEPT !.user_input = inp] IN
         IF StateRejected(inp, login.expected_state)
         THEN Exit1(l, "aborted", "state mismatch")
         ELSE IF ExtractCode(inp) = None
         THEN Exit1(l, "aborted", "no code")
         ELSE [l EXCEPT
                 !.pc = "exchanging",
                 !.visited = Append(@, "exchanging"),
                 !.code = ExtractCode(inp),
                 !.posts = Append(@,
                     [grant_type |-> "authorization_code",
                      code |-> ExtractCode(inp),
                      client_id |-> settings.client_id,
                      client_secret |-> settings.client_secret,
                      code_verifier |-> login.code_verifier])]
    /\ UNCHANGED keyring_password
    /\ LoginUnchanged

\* The answers of the token endpoint to the authorization_code grant.
ExchangeResponses ==
    [status : {200}, access_token : {"A1"}, refresh_token : {"R1", "", NoKey}]
    \cup
    [status : {400}, access_token : {NoKey}, refresh_token : {NoKey}]

\* l.161-171: the two branches on the result of store_refresh_token, both
\* followed by "You're all set!" and the normal return of the command.
AfterLoginStore(l, ok) ==
    [l EXCEPT !.pc = "finished", !.visited = Append(@, "finished"),
              !.exited = TRUE, !.status = 0,
              !.stdout = IF ok THEN "stored in keychain; all set"
                         ELSE "could not store in keychain; all set"]

\* auth.py l.109-110 and cli.py l.150-171: the answer to the exchange.
ExchangeReturn(resp) ==
    LET l == [login EXCEPT !.tokens = resp]
        \* tokens.get("refresh_token", "")
        rt == IF resp.refresh_token = NoKey THEN "" ELSE resp.refresh_token
    IN
    /\ login.pc = "exchanging"
    /\ IF ~IsSuccess(resp.status)
       THEN /\ login' = Exit1(l, "aborted", "HTTPStatusError")
            /\ UNCHANGED keyring_password
       ELSE IF rt = ""
       THEN /\ login' = Exit1(l, "aborted", "no refresh_token")
            /\ UNCHANGED keyring_password
       ELSE /\ keyring_password' = StoreRefreshToken(rt)
            /\ login' = AfterLoginStore(
                           [l EXCEPT !.stores =
                               Append(@, [val |-> rt, ok |-> StoreSucceeds])],
                           StoreSucceeds)
    /\ LoginUnchanged

LoginInit ==
    /\ settings \in {BareSettings, [BareSettings EXCEPT !.client_id = ""]}
    /\ ServerParked
    /\ keyring_backend \in KeychainBackends
    /\ keyring_password \in {"", "kr"}
    /\ SideIdle

LoginNext ==
    \/ \E state \in LoginStates : LoginStart(state)
    \/ BrowserOpened
    \/ PasteCancelled
    \/ \E inp \in UserInputs : Paste(inp)
    \/ \E resp \in ExchangeResponses : ExchangeReturn(resp)

LoginSpec == LoginInit /\ [][LoginNext]_vars

C25_Original ==
    login.posts # <<>> =>
        QsFirst(login.user_input, "state") = login.expected_state

\* C25: when the operator's input begins with http:// or https://, an
\* exchange has been sent only if the first state of its query equals the
\* state generated for this run; any other input is sent whole as the code,
\* no state being looked for.
C25_StateCheckedForUrlsOnly ==
    LET inp == login.user_input IN
    login.posts # <<>> =>
        /\ Len(login.posts) = 1
        /\ IF LooksLikeUrl(inp)
           THEN /\ QsFirst(inp, "state") = login.expected_state
                /\ login.posts[1].code = QsFirst(inp, "code")
           ELSE login.posts[1].code = Stripped(inp)

\* A callback URL that echoes the state has been pasted and its code sent.
C25_Witness ==
    /\ login.pc = "exchanging"
    /\ login.user_input.kind = "url"
    /\ login.user_input.scheme = "https://"
    /\ login.user_input.query = << <<"code", "C1">>, <<"state", "s2">> >>
    /\ login.expected_state = "s2"
    /\ login.posts[1].code = "C1"

\* The run of the command went through the steps in order.
LoginPaths ==
    {<<>>,
     <<"aborted">>,
     <<"awaiting_browser_login">>,
     <<"awaiting_browser_login", "awaiting_callback_paste">>,
     <<"awaiting_browser_login", "awaiting_callback_paste", "aborted">>,
     <<"awaiting_browser_login", "awaiting_callback_paste", "exchanging">>,
     <<"awaiting_browser_login", "awaiting_callback_paste", "exchanging",
       "aborted">>,
     <<"awaiting_browser_login", "awaiting_callback_paste", "exchanging",
       "finished">>}

\* C26 as stated: the command goes through its steps in order; a run that
\* aborted has a non-zero status and has not written to the vault; a run
\* that ended successfully has written the exchanged refresh token to the
\* vault.
C26_Original ==
    /\ login.visited \in LoginPaths
    /\ login.pc = "aborted" =>
          /\ login.exited /\ login.status # 0
          /\ login.stores = <<>>
          /\ keyring_password = login.vault_before
    /\ login.pc = "finished" =>
          /\ login.exited /\ login.status = 0
          /\ login.tokens.refresh_token \notin {NoKey, ""}
          /\ keyring_password = login.tokens.refresh_token

---------------------------------------------------------------------------
(* auth.py: _generate_pkce_pair.  base64.urlsafe_b64encode and             *)
(* hashlib.sha256 are computed as the library computes them; a 32-bit word *)
(* is a pair <<high, low>> of 16-bit halves.                               *)

VerifierBytes == 32

\* The alphabet of base64.urlsafe_b64encode and the one of b64encode.
UrlSafeAlphabet ==
    "ABCDEFGHIJKLMNOPQRSTUVWXYZabcdefghijklmnopqrstuvwxyz0123456789-_"
StandardAlphabet ==
    "ABCDEFGHIJKLMNOPQRSTUVWXYZabcdefghijklmnopqrstuvwxyz0123456789+/"

\* Mutant: the standard alphabet instead of the URL-safe one.
B64CharStandard(i) == SubSeq(StandardAlphabet, i + 1, i + 1)

B64Char(i) == SubSeq(UrlSafeAlphabet, i + 1, i + 1)

\* base64 of a byte string: three bytes give four characters; one or two
\* bytes left over give two or three characters and "=" up to four.
RECURSIVE B64Encode(_)
B64Encode(bytes) ==
    IF Len(bytes) = 0 THEN ""
    ELSE IF Len(bytes) = 1
    THEN B64Char(bytes[1] \div 4) \o B64Char((bytes[1] % 4) * 16) \o "=="
    ELSE IF Len(bytes) = 2
    THEN B64Char(bytes[1] \div 4)
         \o B64Char(((bytes[1] % 4) * 16) + (bytes[2] \div 16))
         \o B64Char((bytes[2] % 16) * 4) \o "="
    ELSE B64Char(bytes[1] \div 4)
         \o B64Char(((bytes[1] % 4) * 16) + (bytes[2] \div 16))
         \o B64Char(((bytes[2] % 16) * 4) + (bytes[3] \div 64))
         \o B64Char(bytes[3] % 64)
         \o B64Encode(SubSeq(bytes, 4, Len(bytes)))

\* .rstrip(b"=")
RECURSIVE RStripPad(_)
RStripPad(s) ==
    IF Len(s) > 0 /\ SubSeq(s, Len(s), Len(s)) = "="
    THEN RStripPad(SubSeq(s, 1, Len(s) - 1))
    ELSE s

\* str.encode() of a text of base64: the ASCII code of each character.
AsciiCode(ch) ==
    CASE ch = "=" -> 61
      [] ch = "+" -> 43
      [] ch = "/" -> 47
      [] OTHER ->
           LET i == CHOOSE k \in 0..63 :
                        SubSeq(UrlSafeAlphabet, k + 1, k + 1) = ch
           IN IF i < 26 THEN 65 + i
              ELSE IF i < 52 THEN 97 + (i - 26)
              ELSE IF i < 62 THEN 48 + (i - 52)
              ELSE IF i = 62 THEN 45 ELSE 95

Encode(s) == [i \in 1..Len(s) |-> AsciiCode(SubSeq(s, i, i))]

\* Bitwise operations on the n lowest bits of three numbers, bit by bit:
\* exclusive or, choice (x ? y : z) and majority.
RECURSIVE Xor3(_, _, _, _)
Xor3(x, y, z, n) ==
    IF n = 0 THEN 0
    ELSE ((x + y + z) % 2) + (2 * Xor3(x \div 2, y \div 2, z \div 2, n - 1))

RECURSIVE Ch3(_, _, _, _)
Ch3(x, y, z, n) ==
    IF n = 0 THEN 0
    ELSE (IF x % 2 = 1 THEN y % 2 ELSE z % 2)
         + (2 * Ch3(x \div 2, y \div 2, z \div 2, n - 1))

RECURSIVE Maj3(_, _, _, _)
Maj3(x, y, z, n) ==
    IF n = 0 THEN 0
    ELSE (((x % 2) + (y % 2) + (z % 2)) \div 2)
         + (2 * Maj3(x \div 2, y \div 2, z \div 2, n - 1))

XorWords(a, b, c) == <<Xor3(a[1], b[1], c[1], 16), Xor3(a[2], b[2], c[2], 16)>>
ChWords(a, b, c) == <<Ch3(a[1], b[1], c[1], 16), Ch3(a[2], b[2], c[2], 16)>>
MajWords(a, b, c) == <<Maj3(a[1], b[1], c[1], 16), Maj3(a[2], b[2], c[2], 16)>>

\* Rotation and shift to the right of a 32-bit word, addition modulo 2^32.
Rotr(w, n) ==
    LET s == IF n >= 16 THEN <<w[2], w[1]>> ELSE w
        p == 2 ^ (n % 16)
        q == 2 ^ (16 - (n % 16))
    IN <<(s[1] \div p) + ((s[2] % p) * q), (s[2] \div p) + ((s[1] % p) * q)>>

Shr(w, n) ==
    LET p == 2 ^ n
        q == 2 ^ (16 - n)
    IN <<w[1] \div p, (w[2] \div p) + ((w[1] % p) * q)>>

Add32(a, b) ==
    <<(a[1] + b[1] + ((a[2] + b[2]) \div 65536)) % 65536,
      (a[2] + b[2]) % 65536>>

BigSigma0(x) == XorWords(Rotr(x, 2), Rotr(x, 13), Rotr(x, 22))
BigSigma1(x) == XorWords(Rotr(x, 6), Rotr(x, 11), Rotr(x, 25))
SmallSigma0(x) == XorWords(Rotr(x, 7), Rotr(x, 18), Shr(x, 3))
SmallSigma1(x) == XorWords(Rotr(x, 17), Rotr(x, 19), Shr(x, 10))

\* The round constants and the initial hash value of SHA-256 (FIPS 180-4),
\* as hashlib holds them.
Sha256K ==
  <<
     <<17034, 12184>>, <<28983, 17553>>, <<46528, 64463>>, <<59829, 56229>>,
     <<14678, 49755>>, <<23025, 4593>>, <<37439, 33444>>, <<43804, 24277>>,
     <<55303, 43672>>, <<4739, 23297>>, <<9265, 34238>>, <<21772, 32195>>,
     <<29374, 23924>>, <<32990, 45566>>, <<39900, 1703>>, <<49563, 61812>>,
     <<58523, 27073>>, <<61374, 18310>>, <<4033, 40390>>, <<9228, 41420>>,
     <<11753, 11375>>, <<19060, 33962>>, <<23728, 43484>>, <<30457, 35034>>,
     <<38974, 20818>>, <<43057, 50797>>, <<45059, 10184>>, <<48985, 32711>>,
     <<50912, 3059>>, <<54695, 37191>>, <<1738, 25425>>, <<5161, 10599>>,
     <<10167, 2693>>, <<11803, 8504>>, <<19756, 28156>>, <<21304, 3347>>,
     <<25866, 29524>>, <<30314, 2747>>, <<33218, 51502>>, <<37490, 11397>>,
     <<41663, 59553>>, <<43034, 26187>>, <<49739, 35696>>, <<51052, 20899>>,
     <<53650, 59417>>, <<54937, 1572>>, <<62478, 13701>>, <<4202, 41072>>,
     <<6564, 49430>>, <<7735, 27656>>, <<10056, 30540>>, <<13488, 48309>>,
     <<14620, 3251>>, <<20184, 43594>>, <<23452, 51791>>, <<26670, 28659>>,
     <<29839, 33518>>, <<30885, 25455>>, <<33992, 30740>>, <<36039, 520>>,
     <<37054, 65530>>, <<42064, 27883>>, <<48889, 41975>>, <<50801, 30962>>
  >>

Sha256H0 ==
  <<
     <<27145, 58983>>, <<47975, 44677>>, <<15470, 62322>>, <<42319, 62778>>,
     <<20750, 21119>>, <<39685, 26764>>, <<8067, 55723>>, <<23520, 52505>>
  >>

\* The padded message of a text shorter than 56 bytes: the text, the byte
\* 128, zeros up to 56 bytes, and the length in bits on 8 bytes.
Sha256Padded(msg) ==
    msg \o <<128>> \o [i \in 1..(55 - Len(msg)) |-> 0]
        \o <<0, 0, 0, 0, 0, 0, (8 * Len(msg)) \div 256, (8 * Len(msg)) % 256>>

Sha256Words(block) ==
    [t \in 1..16 |-> <<block[4 * t - 3] * 256 + block[4 * t - 2],
                       (block[4 * t - 1] * 256) + block[4 * t]>>]

RECURSIVE Sha256Schedule(_)
Sha256Schedule(w) ==
    IF Len(w) = 64 THEN w
    ELSE LET t == Len(w) + 1 IN
         Sha256Schedule(Append(w,
             Add32(Add32(SmallSigma1(w[t - 2]), w[t - 7]),
                   Add32(SmallSigma0(w[t - 15]), w[t - 16]))))

\* One round of the compression function on the working variables s.
Sha256Round(s, w, t) ==
    LET t1 == Add32(Add32(Add32(s[8], BigSigma1(s[5])),
                          ChWords(s[5], s[6], s[7])),
                    Add32(Sha256K[t], w[t]))
        t2 == Add32(BigSigma0(s[1]), MajWords(s[1], s[2], s[3]))
    IN <<Add32(t1, t2), s[1], s[2], s[3], Add32(s[4], t1), s[5], s[6], s[7]>>

\* Rounds t..64 in order.  The test on the new working variables makes
\* each round be computed before the next one starts.
RECURSIVE Sha256Rounds(_, _, _)
Sha256Rounds(s, w, t) ==
    LET next == Sha256Round(s, w, t) IN
    IF Len(next) = 8 /\ t < 64 THEN Sha256Rounds(next, w, t + 1) ELSE next

\* hashlib.sha256(msg).digest() for a message of one block
Sha256(msg) ==
    LET w == Sha256Schedule(Sha256Words(Sha256Padded(msg)))
        s == Sha256Rounds(Sha256H0, w, 1)
        h == [i \in 1..8 |-> Add32(Sha256H0[i], s[i])]
    IN [i \in 1..32 |->
          LET half == h[(i + 3) \div 4][IF ((i - 1) % 4) < 2 THEN 1 ELSE 2]
          IN IF (i - 1) % 2 = 0 THEN half \div 256 ELSE half % 256]

\* _generate_pkce_pair, with verifier_bytes the result of os.urandom(32);
\* .decode() of the ASCII bytes of base64 is the same text.
GeneratePkcePair(verifier_bytes) ==
    LET code_verifier == RStripPad(B64Encode(verifier_bytes))
        digest == Sha256(Encode(code_verifier))
        code_challenge == RStripPad(B64Encode(digest))
    IN <<code_verifier, code_challenge>>

\* Results of os.urandom(32): the octets of the example of RFC 7636,
\* appendix B, with every choice of a first and a last octet.
Rfc7636Octets ==
    <<116, 24, 223, 180, 151, 153, 224, 37, 79, 250, 96, 125, 216, 173, 187,
      186, 22, 212, 37, 77, 105, 214, 191, 240, 91, 88, 5, 88, 83, 132, 141,
      121>>
FirstOctets == {0, 1, 62, 63, 116, 127, 128, 251, 252, 255}
LastOctets == {0, 1, 15, 16, 121, 127, 128, 240, 254, 255}
Urandom ==
    {[i \in 1..VerifierBytes |->
         IF i = 1 THEN first
         ELSE IF i = VerifierBytes THEN last ELSE Rfc7636Octets[i]] :
       first \in FirstOctets, last \in LastOctets}

\* _generate_pkce_pair() is called.
CallGeneratePkcePair(bytes) ==
    LET pair == GeneratePkcePair(bytes) IN
    /\ pkce.pc = "not_started"
    /\ pkce' = [pc |-> "returned", verifier_bytes |-> bytes,
                code_verifier |-> pair[1], code_challenge |-> pair[2]]
    /\ UNCHANGED <<settings, keyring_backend, keyring_password, phase,
                   tokenVars, now, srv_issued, req, calls_started, gateVars,
                   validVars, seeded, renewal_log, auth_url, key_call, path_check,
                   login, srv_log>>

PkceInit ==
    /\ settings = BareSettings
    /\ ServerParked
    /\ keyring_backend = "ok"
    /\ keyring_password = ""
    /\ SideIdle

PkceNext == \E bytes \in Urandom : CallGeneratePkcePair(bytes)

PkceSpec == PkceInit /\ [][PkceNext]_vars

\* The text is made of characters of the URL-safe alphabet only (no "=",
\* "+" or "/") and has a length an unpadded base64 text can have.
UrlSafeNoPadding(text) ==
    /\ Len(text) % 4 # 1
    /\ \A i \in 1..Len(text) :
          \E k \in 0..63 : SubSeq(text, i, i) = SubSeq(UrlSafeAlphabet, k + 1, k + 1)

\* The bytes an unpadded URL-safe base64 text stands for.
SextetOf(text, i) ==
    CHOOSE k \in 0..63 : SubSeq(UrlSafeAlphabet, k + 1, k + 1) = SubSeq(text, i, i)
B64UrlDecode(text) ==
    [j \in 1..((Len(text) * 3) \div 4) |->
        LET g == 4 * ((j - 1) \div 3)
            r == (j - 1) % 3
        IN CASE r = 0 -> (SextetOf(text, g + 1) * 4)
                           + (SextetOf(text, g + 2) \div 16)
             [] r = 1 -> ((SextetOf(text, g + 2) % 16) * 16)
                           + (SextetOf(text, g + 3) \div 4)
             [] r = 2 -> ((SextetOf(text, g + 3) % 4) * 64)
                           + SextetOf(text, g + 4)]

\* C27: the verifier returned by _generate_pkce_pair is the URL-safe
\* base64 text, without padding, of the 32 random bytes, and the challenge
\* is the URL-safe base64 text, without padding, of the SHA-256 digest of
\* the verifier.
C27_PkcePair ==
    pkce.pc = "returned" =>
        /\ UrlSafeNoPadding(pkce.code_verifier)
        /\ B64UrlDecode(pkce.code_verifier) = pkce.verifier_bytes
        /\ UrlSafeNoPadding(pkce.code_challenge)
        /\ B64UrlDecode(pkce.code_challenge)
              = Sha256(Encode(pkce.code_verifier))

\* The pair of the example of RFC 7636, appendix B.
C27_Witness ==
    /\ pkce.pc = "returned"
    /\ pkce.verifier_bytes = Rfc7636Octets
    /\ pkce.code_verifier = "dBjftJeZ4CVP-mB92K27uhbUJU1p1r_wW1gFWFOEjXk"
    /\ pkce.code_challenge = "E9Melhoa2OwvFrEMTJguCHaoeK1t8URWbuGJSstw-cM"

---------------------------------------------------------------------------
(* Two _request coroutines on one event loop.  Between the POST of a       *)
(* refresh grant and the resumption of refresh() the token endpoint        *)
(* processes the grant; the two are separate steps, so that requests are   *)
(* processed in one order and their answers arrive in another.             *)

ConcCalls == {c \in Calls : c.path = PathCustomers /\ c.method = "GET"}
ConcApiResponses == {resp \in CoreResponses : resp.status \in {200, 401}}

\* The answers of the token endpoint: a refusal, or a new bearer with a
\* new refresh string and a lifetime.
ConcTokenResponses(n) ==
    {p \in TokenResponses(n) :
        \/ p.status = 400
        \/ Completed(p) /\ Rotated(p) /\ p.expires_kind = "int"}

\* The grant r is waiting for has been processed by the token endpoint.
Processed(r) ==
    {i \in 1..Len(srv_log) :
        /\ srv_log[i].slot = r
        /\ srv_log[i].seq = req[r].seq
        /\ srv_log[i].stage = req[r].pc}

\* The token endpoint processes the POST of r and answers p.
TokenEndpoint(r, p) ==
    /\ req[r].pc \in {"renew1", "renew2"}
    /\ Processed(r) = {}
    /\ p \in ConcTokenResponses(srv_issued)
    /\ srv_issued' = IF Issues(p) THEN srv_issued + 1 ELSE srv_issued
    /\ srv_log' = Append(srv_log,
                         [slot |-> r, seq |-> req[r].seq,
                          stage |-> req[r].pc,
                          carried |-> req[r].post.refresh_token,
                          resp |-> p])
    /\ UNCHANGED <<settings, keyring_backend, keyring_password, phase,
                   tokenVars, now, req, calls_started, gateVars, validVars,
                   seeded, renewal_log, auth_url, key_call, path_check, login, pkce>>

\* The answer reaches the process and refresh() resumes in r.
TokenResponseArrives(r) ==
    /\ Processed(r) # {}
    /\ \E i \in Processed(r) : RefreshApply(r, srv_log[i].resp)
    /\ UNCHANGED srv_issued

ConcInit ==
    /\ Init
    /\ settings = [BareSettings EXCEPT !.refresh_token = "envr"]
    /\ keyring_backend = "ok"
    /\ keyring_password = ""

ConcNext ==
    \/ Lifespan
    \/ \E r \in Requests, c \in ConcCalls : Start(r, c)
    \/ \E r \in Requests : \E p \in ConcTokenResponses(srv_issued) :
          TokenEndpoint(r, p)
    \/ \E r \in Requests : TokenResponseArrives(r)
    \/ \E r \in Requests, resp \in ConcApiResponses : ApiReturn(r, resp)

ConcSpec == ConcInit /\ [][ConcNext]_vars

\* C28: renewal is not single-flight.  A call that starts while is_valid
\* is false posts a refresh grant carrying the held refresh string, whether
\* or not another call is waiting for the answer to its own grant; so two
\* calls can both have posted the same string before either answer has
\* arrived (the witness).
C28_RenewalNotSingleFlight ==
    [][\A r \in Requests :
          (/\ req'[r].seq # req[r].seq
           /\ ~IsValid
           /\ ~CredentialsMissing
           /\ RefreshTokenToSend # ""
           /\ PathAccepted(req'[r].call.path)) =>
              /\ req'[r].pc = "renew1"
              /\ req'[r].post = RefreshForm(RefreshTokenToSend)
     ]_vars

\* Both calls found the token invalid and have posted the seeded refresh
\* string; the token endpoint has processed neither grant.
C28_Witness ==
    /\ \A r \in Requests :
          /\ req[r].pc = "renew1"
          /\ ~req[r].entry_valid
          /\ req[r].post.refresh_token = "envr"
    /\ srv_log = <<>>
    /\ renewal_log = <<>>
    /\ ~IsValid

\* The places of srv_log at which the token endpoint issued a refresh
\* string.
IssuedAt == {i \in 1..Len(srv_log) :
                Issues(srv_log[i].resp) /\ Rotated(srv_log[i].resp)}

\* C29 as stated: once the token endpoint has issued a refresh string in
\* answer to a grant carrying r, it processes no later grant carrying r.
C29_Original ==
    \A i \in IssuedAt : \A j \in 1..Len(srv_log) :
        j > i => srv_log[j].carried # srv_log[i].carried

\* C30 as stated: when no renewal is in flight, the held refresh string is
\* the one the token endpoint issued last.
C30_Original ==
    (/\ \A r \in Requests : req[r].pc \notin {"renew1", "renew2"}
     /\ IssuedAt # {}) =>
        refresh_token =
            srv_log[CHOOSE i \in IssuedAt : \A j \in IssuedAt : j <= i]
                .resp.refresh_token

---------------------------------------------------------------------------
(* Concurrent write-gated calls (GateSpec).  Between its entry and         *)
(* "await func" the wrapper has no await, so the event loop runs the       *)
(* increment and the comparison of one call without running another        *)
(* coroutine; the wrapped operations themselves overlap.                   *)

\* The gated calls whose wrapped operation was started.
Started == {i \in 1..Len(gate_log) : gate_log[i].called # <<>>}

\* C31: read-only off and a ceiling N > 0: however the gated calls and
\* their running operations interleave, at most N wrapped operations are
\* ever started, and no increment of the counter is lost: the counter is
\* the number of gated calls made and each call was judged on the value
\* its own increment produced.
C31_StartedNeverExceedsCeiling ==
    (~settings.read_only /\ settings.max_write_calls_per_session > 0) =>
        /\ Cardinality(Started) <= settings.max_write_calls_per_session
        /\ write_call_count = Len(gate_log)
        /\ \A i \in 1..Len(gate_log) :
              /\ gate_log[i].count = i
              /\ i \in Started <=>
                    gate_log[i].count <= settings.max_write_calls_per_session

\* Ceiling 2: two operations are running at the same time, a third and a
\* fourth call arrived meanwhile and were rejected.
C31_Witness ==
    /\ ~settings.read_only
    /\ settings.max_write_calls_per_session = 2
    /\ Len(gate_log) = 4
    /\ gate_log[1].state = "running"
    /\ gate_log[2].state = "running"
    /\ gate_log[3].verdict = "rate_limited"
    /\ gate_log[4].verdict = "rate_limited"
    /\ Started = {1, 2}

---------------------------------------------------------------------------
(* Renewals that fail (Spec).                                              *)

\* In this step the call of slot r ends because refresh() raised: a
\* configuration error, a non-2xx answer of the token endpoint, or a 200
\* whose payload has no access_token or an expires_in that int() refuses.
RenewalFailed(r) ==
    /\ req'[r].pc = "done"
    /\ req[r].pc # "done" \/ req'[r].seq # req[r].seq
    /\ req'[r].outcome.detail \in
          {"credentials", "no_refresh_token", "token", "access_token",
           "expires_in"}

\* C32 as stated: a renewal that fails changes none of the fields of the
\* TokenStore and not the vault.
C32_Original ==
    [][\A r \in Requests :
          RenewalFailed(r) => UNCHANGED <<tokenVars, keyring_password>>
     ]_vars

\* The exceptions refresh() raises, by the detail recorded with them.
RenewalErrors ==
    {"credentials", "no_refresh_token", "token", "access_token", "expires_in"}

\* C33: an answer of the token endpoint on which refresh() raises is the
\* last thing its call sees; a call whose renewal failed has ended with
\* the renewal's error and sent nothing after it.  When the proactive renewal failed the call made
\* no API send at all; when the reactive renewal failed the call made the
\* one send that was answered 401 and no resend.  The failing renewal is
\* the last thing the call did: every POST of the call was answered once,
\* none was repeated, and a non-2xx of the token endpoint is reported with
\* the status the endpoint gave.
C33_FailedRenewalSendsNothing ==
    \A r \in Requests :
        LET q == req[r]
            n == Len(q.trace)
            proactive == NumEv(q, "recv") = 0
        IN
        /\ \A i \in EvIdx(q, "token") :
              (\/ ~IsSuccess(q.trace[i].resp.status)
               \/ q.trace[i].resp.access_token = NoKey
               \/ q.trace[i].resp.expires_kind = "bad") =>
                  /\ i = n
                  /\ q.pc = "done"
                  /\ q.outcome.detail \in RenewalErrors
        /\ (q.pc = "done" /\ q.outcome.detail \in RenewalErrors) =>
            /\ q.outcome.kind \in
                  {"RuntimeError", "HTTPStatusError", "KeyError", "ValueError"}
            /\ q.trace[n].ev \in {"validate", "recv", "token"}
            /\ NumEv(q, "send") = (IF proactive THEN 0 ELSE 1)
            /\ ~proactive =>
                  /\ q.trace[Nth(EvIdx(q, "recv"), 1)].status = 401
                  /\ \A i \in EvIdx(q, "send") : i < Nth(EvIdx(q, "recv"), 1)
            /\ NumEv(q, "post") = NumEv(q, "token")
            /\ NumEv(q, "post") <= (IF proactive THEN 1 ELSE 2)
            /\ q.outcome.kind = "HTTPStatusError" =>
                  /\ q.trace[n].ev = "token"
                  /\ q.trace[n].resp.status = q.outcome.status
                  /\ ~IsSuccess(q.outcome.status)

\* The proactive renewal succeeded, the API answered 401, and the reactive
\* renewal was refused by the token endpoint: one send, two POSTs.
C33_Witness ==
    /\ req["q1"].pc = "done"
    /\ req["q1"].outcome.kind = "HTTPStatusError"
    /\ req["q1"].outcome.status = 400
    /\ NumEv(req["q1"], "send") = 1
    /\ NumEv(req["q1"], "post") = 2

---------------------------------------------------------------------------
(* The vault across concurrent renewals (VaultSpec) and across restarts of  *)
(* the process (RestartSpec).  In VaultSpec two calls renew concurrently   *)
(* against a working keyring and the token endpoint answers with any       *)
(* payload; in RestartSpec the process may end at any moment and be        *)
(* started again, the vault and the token endpoint outliving it.           *)

\* The process ends and is started again: module state and the TokenStore
\* are constructed anew, the coroutines of the old process are gone.  The
\* numbering of calls goes on, so that an answer addressed to a call of the
\* old process reaches nobody.
Restart ==
    /\ phase = "running"
    /\ phase' = "boot"
    /\ access_token' = ""
    /\ refresh_token' = ""
    /\ expires_at' = 0
    /\ expires_inf' = FALSE
    /\ req' = [r \in Requests |-> Idle]
    /\ write_call_count' = 0
    /\ seeded' = NotSeeded
    /\ renewal_log' = <<>>
    /\ UNCHANGED <<settings, keyring_backend, keyring_password, now,
                   srv_issued, calls_started, gate_log, validVars, sideVars>>

\* Further answers of the token endpoint: a new bearer without a new
\* refresh string, and payloads whose expires_in int() refuses, with or
\* without a new refresh string.  They are answered and applied in one
\* step.
OtherTokenResponses(n) ==
    {p \in TokenResponses(n) \ ConcTokenResponses(n) :
        Issues(p) /\ p.expires_kind # "absent"}

VaultInit ==
    /\ Init
    /\ settings = [BareSettings EXCEPT !.refresh_token = "envr"]
    /\ keyring_backend = "ok"

VaultNext ==
    \/ Lifespan
    \/ \E r \in Requests, c \in ConcCalls : Start(r, c)
    \/ \E r \in Requests : \E p \in ConcTokenResponses(srv_issued) :
          TokenEndpoint(r, p)
    \/ \E r \in Requests : TokenResponseArrives(r)
    \/ \E r \in Requests : \E p \in OtherTokenResponses(srv_issued) :
          Processed(r) = {} /\ RefreshReturn(r, p)
    \/ \E r \in Requests, resp \in ConcApiResponses : ApiReturn(r, resp)

VaultSpec == VaultInit /\ [][VaultNext]_vars

RestartNext ==
    \/ Lifespan
    \/ Restart
    \/ \E r \in Sequential, c \in ConcCalls : Start(r, c)
    \/ \E r \in Sequential : \E p \in TokenResponses(srv_issued) :
          RefreshReturn(r, p)
    \/ \E r \in Sequential, resp \in ConcApiResponses : ApiReturn(r, resp)

RestartSpec == VaultInit /\ [][RestartNext]_vars

\* C34: with a working keyring, once lifespan() has run, the vault and
\* the TokenStore hold the same refresh string whenever either has taken
\* one from a renewal, however the renewals of the two calls interleave;
\* and the string is the one of the rotated answer applied last.
C34_VaultEqualsHeld ==
    phase = "running" =>
        /\ keyring_password # "" => keyring_password = refresh_token
        /\ refresh_token \notin {"", "envr"} =>
              keyring_password = refresh_token
        /\ (renewal_log # <<>>
              /\ Rotated(renewal_log[Len(renewal_log)].resp)
              /\ renewal_log[Len(renewal_log)].resp.expires_kind # "bad") =>
              /\ refresh_token = renewal_log[Len(renewal_log)].resp.refresh_token
              /\ keyring_password = refresh_token

\* Two renewals were in flight together, both were answered with a rotated
\* string and both have been applied; the vault holds what memory holds.
C34_Witness ==
    /\ Len(srv_log) = 2
    /\ srv_log[1].slot # srv_log[2].slot
    /\ srv_log[1].carried = srv_log[2].carried
    /\ Rotated(srv_log[1].resp) /\ Rotated(srv_log[2].resp)
    /\ \A r \in Requests : req[r].pc \in {"api1", "done"}
    /\ Len(renewal_log) = 2
    /\ keyring_password = refresh_token
    /\ refresh_token \in {"r1", "r2"}

\* C35: no static bearer is configured.  When lifespan() runs and the
\* vault holds a refresh string (the one a rotated renewal of an earlier
\* process wrote, or the one the login wrote), the TokenStore is seeded
\* with the vault's string although the configuration has one too; and
\* every proactive renewal of a call that starts while the vault holds a
\* string posts the vault's string, never the configuration's.
C35_RestartSeedsFromVault ==
    [][ /\ (phase = "boot" /\ phase' = "running"
              /\ settings.access_token = "" /\ keyring_password # "") =>
              /\ refresh_token' = keyring_password
              /\ seeded' = [kind |-> "refresh", value |-> keyring_password]
        /\ \A r \in Requests :
              (/\ req'[r].seq # req[r].seq
               /\ req'[r].pc = "renew1"
               /\ keyring_password # "") =>
                  /\ req'[r].post.refresh_token = keyring_password
                  /\ req'[r].post.refresh_token # settings.refresh_token
      ]_vars

\* A renewal of the first process rotated the refresh string to r1 and
\* wrote it to the vault; the process was started again, lifespan() seeded
\* the TokenStore with r1, and the first call posts r1, not the string of
\* the configuration.
C35_Witness ==
    /\ settings.refresh_token = "envr"
    /\ keyring_password = "r1"
    /\ seeded = [kind |-> "refresh", value |-> "r1"]
    /\ renewal_log = <<>>
    /\ req["q1"].pc = "renew1"
    /\ req["q1"].post.refresh_token = "r1"
    /\ NumEv(req["q1"], "post") = 1

---------------------------------------------------------------------------
(* The resend after a 401 (Spec).                                          *)

\* C36: in the step in which the reactive renewal of a call completes and
\* the request is sent again, the Authorization header of the resend is
\* the bearer the TokenStore holds after that renewal, which is the access
\* token of the renewal's answer; it is not the header of the send the API
\* answered with 401, and the request is otherwise the same.
C36_ResendCarriesRenewedBearer ==
    [][\A r \in Requests :
          (req[r].pc = "renew2" /\ req'[r].pc = "api2") =>
              LET q == req'[r]
                  n == Len(q.trace)
                  sends == EvIdx(q, "send")
                  tokens == EvIdx(q, "token")
                  first == q.trace[Nth(sends, 1)]
                  answer == q.trace[Nth(tokens, Cardinality(tokens))].resp
              IN
              /\ q.trace[n].ev = "send"
              /\ Cardinality(sends) = 2
              /\ q.trace[n].auth = Bearer(access_token')
              /\ access_token' = answer.access_token
              /\ q.trace[n].auth # first.auth
              /\ q.trace[n].call = first.call
     ]_vars

\* The static bearer was rejected with 401, the reactive renewal returned
\* a1, and the resend carries a1.
C36_Witness ==
    /\ seeded = [kind |-> "static", value |-> "static"]
    /\ req["q1"].pc = "api2"
    /\ req["q1"].entry_token = "static"
    /\ req["q1"].trace[Len(req["q1"].trace)].ev = "send"
    /\ req["q1"].trace[Len(req["q1"].trace)].auth = Bearer("a1")
    /\ access_token = "a1"

---------------------------------------------------------------------------
(* A token endpoint that answers 200 with an empty access_token            *)
(* (BlankSpec).                                                            *)

\* {"access_token": "", "expires_in": 61}
BlankTokenResponse ==
    [status |-> 200, access_token |-> "", refresh_token |-> NoKey,
     expires_kind |-> "int", expires_in |-> 61]

BlankNext ==
    \/ Lifespan
    \/ \E r \in Sequential, c \in ConcCalls : Start(r, c)
    \/ \E r \in Sequential : \E p \in TokenResponses(srv_issued) :
          RefreshReturn(r, p)
    \/ \E r \in Sequential :
          RefreshApply(r, BlankTokenResponse) /\ UNCHANGED srv_issued
    \/ \E r \in Sequential, resp \in ConcApiResponses : ApiReturn(r, resp)

BlankSpec == Init /\ [][BlankNext]_vars

\* C37 as stated: every API send carries an Authorization header with a
\* non-empty token.
C37_Original ==
    \A r \in Requests : \A i \in EvIdx(req[r], "send") :
        req[r].trace[i].auth # Bearer("")

---------------------------------------------------------------------------
(* Lifetimes at and below the 60 s buffer (ShortSpec).                     *)

\* expires_in as the token endpoint may report it: nothing left, half the
\* buffer, exactly the buffer, one second more.
ShortLifetimes == {0, 30, 60, 61}

ShortTokenResponses(n) ==
    IF n >= MaxIssued THEN {} ELSE
    { [status |-> 200, access_token |-> "a" \o ToString(n + 1),
       refresh_token |-> NoKey, expires_kind |-> "int", expires_in |-> l] :
         l \in ShortLifetimes }

ShortNext ==
    \/ Lifespan
    \/ \E r \in Sequential, c \in ConcCalls : Start(r, c)
    \/ \E r \in Sequential : \E p \in ShortTokenResponses(srv_issued) :
          srv_issued' = srv_issued + 1 /\ RefreshApply(r, p)
    \/ \E r \in Sequential, resp \in ConcApiResponses : ApiReturn(r, resp)
    \/ Tick

ShortSpec == ConcInit /\ [][ShortNext]_vars

\* C38 as stated: in the step in which a renewal completes and the request
\* is sent, is_valid is true.
C38_Original ==
    [][\A r \in Requests :
          (req[r].pc \in {"renew1", "renew2"}
             /\ req'[r].pc \in {"api1", "api2"}) =>
              IsValidAt(access_token', expires_inf', expires_at', now')
     ]_vars

---------------------------------------------------------------------------
(* Termination of _request (LiveSpec).  Every POST to the token endpoint   *)
(* and every API request is eventually answered: httpx awaits with a       *)
(* timeout of 30 s, so each await returns or raises.                       *)

LiveNext ==
    \/ Lifespan
    \/ \E r \in Sequential, c \in ConcCalls : Start(r, c)
    \/ \E r \in Sequential : \E p \in TokenResponses(srv_issued) :
          RefreshReturn(r, p)
    \/ \E r \in Sequential, resp \in CoreResponses : ApiReturn(r, resp)

LiveSpec ==
    /\ Init
    /\ [][LiveNext]_vars
    /\ \A r \in Sequential :
          /\ WF_vars(\E p \in TokenResponses(srv_issued) : RefreshReturn(r, p))
          /\ WF_vars(\E resp \in CoreResponses : ApiReturn(r, resp))

\* The call of slot r is between its start and its end.
InFlight(r) == req[r].pc \in {"renew1", "api1", "renew2", "api2"}

\* The call of slot r has returned a parsed body or raised.
Terminated(r) ==
    /\ req[r].pc = "done"
    /\ req[r].outcome.kind \in
          {"return", "TOCOnlineError", "HTTPStatusError", "RuntimeError",
           "KeyError", "ValueError", "JSONDecodeError", "AttributeError",
           "TypeError"}

\* C39: every call in flight terminates, returning a parsed body or
\* raising, and no call ever makes more than two renewals or more than two
\* API sends.
C39_CallsTerminate ==
    /\ [](\A r \in Requests :
            /\ req[r].pc \in {"idle", "done", "renew1", "api1", "renew2", "api2"}
            /\ NumEv(req[r], "post") <= 2
            /\ NumEv(req[r], "send") <= 2)
    /\ \A r \in Requests : InFlight(r) ~> Terminated(r)

\* A call that used everything it may: two renewals and two sends, the
\* resend answered 401 again, ended with the typed error.
C39_Witness ==
    /\ req["q1"].pc = "done"
    /\ NumEv(req["q1"], "post") = 2
    /\ NumEv(req["q1"], "send") = 2
    /\ req["q1"].outcome.kind = "TOCOnlineError"
    /\ req["q1"].outcome.status = 401

---------------------------------------------------------------------------
(* auth.py: the authorization endpoint make_auth_url derives from the      *)
(* configured token URL (AuthUrlSpec).                                     *)

MaxSegments == 3

\* str.replace(old, new): every non-overlapping occurrence of old, from
\* the left, is replaced.
RECURSIVE StrReplace(_, _, _)
StrReplace(s, old, new) ==
    IF Len(s) < Len(old) THEN s
    ELSE IF SubSeq(s, 1, Len(old)) = old
    THEN new \o StrReplace(SubSeq(s, Len(old) + 1, Len(s)), old, new)
    ELSE SubSeq(s, 1, 1) \o StrReplace(SubSeq(s, 2, Len(s)), old, new)

\* settings.oauth_token_url.replace("/token", "/auth")
AuthEndpoint(url) == StrReplace(url, "/token", "/auth")

\* Values of TOCONLINE_OAUTH_TOKEN_URL: a host and up to MaxSegments path
\* segments.
UrlHosts == {"https://app10.toconline.pt", "https://example.com"}
UrlSegments == {"/oauth", "/token", "/tokens", "/v2"}

RECURSIVE UrlPaths(_)
UrlPaths(n) ==
    IF n = 0 THEN {""}
    ELSE LET shorter == UrlPaths(n - 1)
         IN  shorter \cup {p \o seg : p \in shorter, seg \in UrlSegments}

TokenUrls == {h \o p : h \in UrlHosts, p \in UrlPaths(MaxSegments) \ {""}}

\* make_auth_url up to the assignment of auth_endpoint.
MakeAuthUrl ==
    /\ ~auth_url.evaluated
    /\ auth_url' = [auth_url EXCEPT
                       !.auth_endpoint = AuthEndpoint(auth_url.oauth_token_url),
                       !.evaluated = TRUE]
    /\ UNCHANGED <<settings, keyring_backend, keyring_password, phase,
                   tokenVars, now, srv_issued, req, calls_started, gateVars,
                   validVars, seeded, renewal_log, key_call, path_check,
                   login, pkce, srv_log>>

AuthUrlInit ==
    /\ settings = BareSettings
    /\ ServerParked
    /\ keyring_backend = "ok"
    /\ keyring_password = ""
    /\ key_call = NoKeychainCall
    /\ path_check = NoPathCheck
    /\ login = NoLogin
    /\ pkce = NoPkce
    /\ srv_log = <<>>
    /\ auth_url \in [oauth_token_url : TokenUrls, auth_endpoint : {""},
                     evaluated : {FALSE}]

AuthUrlNext == MakeAuthUrl

AuthUrlSpec == AuthUrlInit /\ [][AuthUrlNext]_vars

\* The URL with its trailing "/token" segment, if it has one, replaced by
\* "/auth", and nothing else touched.
TrailingTokenReplaced(url) ==
    IF Len(url) >= 6 /\ SubSeq(url, Len(url) - 5, Len(url)) = "/token"
    THEN SubSeq(url, 1, Len(url) - 6) \o "/auth"
    ELSE url

\* C40 as stated: the authorization endpoint is the token URL with only
\* its trailing "/token" segment replaced by "/auth".
C40_Original ==
    auth_url.evaluated =>
        auth_url.auth_endpoint = TrailingTokenReplaced(auth_url.oauth_token_url)

====
